---------------------------- MODULE Spec2Model ----------------------------
(***************************************************************************)
(* Model of the webrtcperf statistics engine: the Scheduler (utils.ts) and *)
(* the Stats collector (stats.ts, concatenated into src/src/utils.ts).     *)
(*                                                                         *)
(* Time is the integer millisecond clock Date.now().  It starts at 1: the  *)
(* code tests `if (this.last)`, and Date.now() is never 0.                  *)
(***************************************************************************)
EXTENDS Integers, Sequences, FiniteSets, TLC

\* ------------------------------------------------------------------ bounds
\* Interval in ms of a Scheduler used on its own (constructor: interval * 1000).
Interval == 2
\* statsInterval in ms, the interval of the Scheduler of Stats.
StatsInterval == 1
\* The clock stops advancing at MaxTime.
MaxTime == 9
\* Number of Scheduler.start() calls modelled on one Scheduler.
MaxStarts == 2
\* Number of Scheduler instances (Stats.start() creates a new one each time).
MaxSched == 2

\* The clock of the Stats specification stops advancing at MaxStatsTime.
MaxStatsTime == 4
\* Number of sessions created (consumeSessionId) in a run.
MaxSessions == 2
\* The configured rtcStatsTimeout, in ms.
RtcStatsTimeoutCfg == 1
\* The clock of the life-cycle specification stops advancing at LifeMaxTime.
LifeMaxTime == 3
\* Number of exit handler callbacks.
MaxExitHandlers == 2
\* Number of entries of the exitHandlers Set, deleted ones that an iterator
\* may still pass included.
MaxExitEntries == 3
\* Number of runExitHandlersNow() calls.
MaxExitCalls == 2
\* Largest items.length of a chunkedPromiseAll() call.
MaxItems == 3
\* Largest chunkSize of a chunkedPromiseAll() call.
MaxChunkSize == 2
\* The page clock advances in steps of PageStep ms, MaxPageSteps times.
PageStep == 500
MaxPageSteps == 4
\* ttl in seconds and maxItems of a MeasuredStats instance that has them.
TtlCfg == 1
MaxItemsCfg == 1
\* push() is not called on an instance whose statsCount is MaxCount.
MaxCount == 3
\* secondsPerSample, the default of the MeasuredStats constructor.
secondsPerSample == 1
\* Number of 'stop' listeners the collector registers on one session.
MaxListeners == 2
\* Number of sessions created in a run of the life-cycle specification.
LifeMaxSessions == 1

SchedIds == 1..MaxSched
SessionIds == 1..MaxSessions

VARIABLES
  now,        \* Date.now()
  sched,      \* SchedIds -> fields of the Scheduler instance
  timers,     \* pending setTimeout timers: [id, s, due2]
  inflight,   \* callback invocations that began and have not settled yet
  starts,     \* history: number of start() calls per Scheduler
  onTime,     \* history: per Scheduler, every timer fired on time and every callback was instantaneous
  prevStart,  \* history: start time of the latest callback invocation per Scheduler (0: none)
  gap,        \* history: time between the two latest callback starts per Scheduler (-1: none)
  lastSettle, \* history: per Scheduler, how the latest callback settled: [ok, dur] (dur -1: none yet)
  cfg,            \* Stats constructor options: [gateway, pushStats]
  statsRunning,   \* Stats.running
  scheduler,      \* Stats.scheduler: a Scheduler id, 0 when undefined
  nsched,         \* number of Scheduler instances constructed so far
  gateway,        \* Stats.gateway is set
  startPend,      \* start() calls suspended on `await this.deletePushgatewayStats()`
  stopPend,       \* stop() calls suspended, per await: [sessions, gateway]
  nextSessionId,  \* Stats.nextSessionId
  sessions,       \* Stats.sessions: the ids, in Map insertion order
  hung,           \* sessions whose updateStats() never settles
  stopListeners,  \* per session id: the 'stop' listeners Stats has registered on the session
  external,       \* Stats.externalCollectedStats, in Map insertion order
  collectedStats, \* Stats.collectedStats
  lastTick,       \* history: what the latest settled collectStats() call did
  lastCall,       \* history: the latest start()/stop() call on Stats and Stats.running before it
  alertRules,       \* Stats.alertRules: the configured rules, as Object.entries() (<<>>: null)
  alertRulesReport, \* Stats.alertRulesReport: [key, ruleDesc] -> report
  lastCheck,        \* history: the latest checkAlertRules() call: [now, elapsed, recorded]
  exitHandlers,           \* the Set exitHandlers: its entries in insertion order (0: a deleted entry an iterator may still pass)
  runExitHandlersPromise, \* runExitHandlersPromise: "null", "pending" or "resolved"
  exitRuns,               \* runExitHandlers() calls in progress: the entry whose handler each one awaits
  exitCalls,              \* history: number of runExitHandlersNow() calls
  exitInvoked,            \* history: per handler, the number of times it was invoked
  exitThrew,              \* history: the handlers that threw or rejected
  chunkCall,     \* a chunkedPromiseAll() call: [state, items (items.length), chunkSize, index]
  chunkFlight,   \* the item indexes whose f(item, index) has been called and has not settled
  chunkSettled,  \* per item index how f settled: "none", "value", "undefined" or "rejected"
  measCfg,       \* MeasuredStats constructor options: [ttl, maxItems, storeId (set or '')]
  stats,         \* MeasuredStats.stats: entries [timestamp, value, count]
  statsSum,      \* MeasuredStats.statsSum
  statsCount,    \* MeasuredStats.statsCount
  localStorage,  \* the item webrtcperf-MeasuredStats-<storeId>: <<>> or <<[stats, statsSum, statsCount]>>
  pageNow        \* Date.now() in the page

schedVars == <<now, sched, timers, inflight>>
histVars == <<starts, onTime, prevStart, gap, lastSettle>>
alertVars == <<alertRules, alertRulesReport, lastCheck>>
exitVars == <<exitHandlers, runExitHandlersPromise, exitRuns, exitCalls, exitInvoked, exitThrew>>
chunkVars == <<chunkCall, chunkFlight, chunkSettled>>
measVars == <<measCfg, stats, statsSum, statsCount, localStorage, pageNow>>
utilVars == <<exitVars, chunkVars, measVars>>
statsVars == <<cfg, statsRunning, scheduler, nsched, gateway, startPend, stopPend,
               nextSessionId, sessions, hung, stopListeners, external, collectedStats, lastTick, lastCall,
               alertVars, utilVars>>
vars == <<now, sched, timers, inflight, starts, onTime, prevStart, gap, lastSettle,
          cfg, statsRunning, scheduler, nsched, gateway, startPend, stopPend,
          nextSessionId, sessions, hung, stopListeners, external, collectedStats, lastTick, lastCall,
          alertRules, alertRulesReport, lastCheck,
          exitHandlers, runExitHandlersPromise, exitRuns, exitCalls, exitInvoked, exitThrew,
          chunkCall, chunkFlight, chunkSettled,
          measCfg, stats, statsSum, statsCount, localStorage, pageNow>>
collectorVars == <<schedVars, histVars, cfg, statsRunning, scheduler, nsched, gateway, startPend,
                   stopPend, nextSessionId, sessions, hung, stopListeners, external, collectedStats,
                   lastTick, lastCall, alertVars>>

\* ------------------------------------------------------------- helpers
Max2(a, b) == IF a >= b THEN a ELSE b
Min2(a, b) == IF a <= b THEN a ELSE b
Range(seq) == {seq[k] : k \in 1..Len(seq)}

\* clampMinMax(value, min, max) = Math.max(Math.min(value, max), min)
clampMinMax(value, min, max) == Max2(Min2(value, max), min)

\* ------------------------------------------------------------ Scheduler
\* A freshly constructed Scheduler: running = false, last = 0, errorSum = 0,
\* statsTimeoutId undefined (0).
NewScheduler(interval) ==
  [interval |-> interval, running |-> FALSE, last |-> 0, errorSum |-> 0, statsTimeoutId |-> 0]

TimersOf(s, tms) == {t \in tms : t.s = s}

\* A timer handle not held by any pending timer of Scheduler s.  Every
\* setTimeout of a Scheduler overwrites statsTimeoutId with the new handle, so
\* a handle never aliases an older one that is still referenced.
FreeId(s, tms) ==
  CHOOSE k \in 1..(Cardinality(TimersOf(s, tms)) + 1) : \A t \in TimersOf(s, tms) : t.id # k

\* errorSum after the drift update of scheduleNext at time t.
DriftNoInterval(rec, t) ==
  IF rec.last # 0
    THEN rec.errorSum + clampMinMax(t - rec.last, -rec.interval, rec.interval)
    ELSE rec.errorSum

Drift(rec, t) ==
  IF rec.last # 0
    THEN rec.errorSum + clampMinMax(t - rec.last - rec.interval, -rec.interval, rec.interval)
    ELSE rec.errorSum

\* Twice the delay handed to setTimeout: interval - errorSum / 2.  Twice,
\* because errorSum may be odd.  Node fires a timer whose delay is below 1 ms
\* after 1 ms.
Delay2(interval, errorSum) == Max2(2, 2 * interval - errorSum)

\* scheduleNext(): the Scheduler record after the call at time t.
scheduleNextRec(s, rec, tms, t) ==
  IF ~rec.running
    THEN rec
    ELSE [rec EXCEPT !.errorSum = Drift(rec, t),
                     !.last = t,
                     !.statsTimeoutId = FreeId(s, tms)]

\* scheduleNext(): the pending timers after the call at time t.
scheduleNextTimers(s, rec, tms, t) ==
  IF ~rec.running
    THEN tms
    ELSE tms \cup {[id |-> FreeId(s, tms), s |-> s,
                    due2 |-> 2 * t + Delay2(rec.interval, Drift(rec, t))]}

\* Scheduler.start(): running = true; scheduleNext().
StartRec(s, rec, tms, t) == scheduleNextRec(s, [rec EXCEPT !.running = TRUE], tms, t)

StartTimers(s, rec, tms, t) == scheduleNextTimers(s, [rec EXCEPT !.running = TRUE], tms, t)

\* Scheduler.stop(): running = false; clearTimeout(statsTimeoutId).
StopRec(rec) == [rec EXCEPT !.running = FALSE]

StopTimers(s, rec, tms) ==
  IF rec.statsTimeoutId # 0
    THEN {t \in tms : ~(t.s = s /\ t.id = rec.statsTimeoutId)}
    ELSE tms

\* Date.now() advances by one millisecond, up to limit.
ClockAdvances(limit) ==
  /\ now < limit
  /\ now' = now + 1
  /\ UNCHANGED <<sched, timers, inflight, histVars, statsVars>>

\* The clock advances (Scheduler specification).
Advance == ClockAdvances(MaxTime)

\* A program that owns the Scheduler calls start().
SchedStart(s) ==
  /\ starts[s] < MaxStarts
  /\ sched' = [sched EXCEPT ![s] = StartRec(s, sched[s], timers, now)]
  /\ timers' = StartTimers(s, sched[s], timers, now)
  /\ starts' = [starts EXCEPT ![s] = @ + 1]
  /\ UNCHANGED <<now, inflight, onTime, prevStart, gap, lastSettle, statsVars>>

\* A program that owns the Scheduler calls stop().
SchedStop(s) ==
  /\ starts[s] > 0
  /\ sched' = [sched EXCEPT ![s] = StopRec(sched[s])]
  /\ timers' = StopTimers(s, sched[s], timers)
  /\ UNCHANGED <<now, inflight, histVars, statsVars>>

\* A timer may fire once its delay has elapsed; it can be late.
Due(t) == 2 * now >= t.due2
Late(t) == 2 * (now - 1) >= t.due2

\* setTimeout is one-shot: the timer that fires is no longer pending.
FireTimersRepeating(t, tms) == tms

FireTimers(t, tms) == tms \ {t}

\* The metric catalog (statsNames), frozen at start.
Metrics == {"cpu", "rtt"}

\* The timer handler begins: now = Date.now(); await this.callback(now).
\* pc is the position of the callback ("cb": the callback of a Scheduler
\* used on its own).
\* idx and sid are the position of collectStats in its loop over the sessions.
\* alerts: checkAlertRules() found the collector running.
\* exportFailed: the push to the external instance failed.
Invocation(t, pc, idx, sid) ==
  [s |-> t.s, tid |-> t.id, started |-> now, pc |-> pc, idx |-> idx, sid |-> sid,
   alerts |-> FALSE, exportFailed |-> FALSE, pushed |-> [name \in Metrics |-> 0]]

InflightOf(s, inv) == {i \in inv : i.s = s}

FireHistory(t) ==
  /\ onTime' = [onTime EXCEPT ![t.s] = @ /\ ~Late(t)]
  /\ gap' = [gap EXCEPT ![t.s] = IF prevStart[t.s] = 0 THEN -1 ELSE now - prevStart[t.s]]
  /\ prevStart' = [prevStart EXCEPT ![t.s] = now]
  /\ UNCHANGED starts

TimerFire(t) ==
  /\ t \in timers
  /\ Due(t)
  /\ timers' = FireTimers(t, timers)
  /\ inflight' = inflight \cup {Invocation(t, "cb", 0, 0)}
  /\ FireHistory(t)
  /\ UNCHANGED <<now, sched, lastSettle, statsVars>>

\* The callback settles, ok = it resolved; when it rejects the catch block only
\* logs.  The finally block calls scheduleNext() in both cases.
SettleTimersTryOnly(s, rec, tms, t, ok) ==
  IF ok THEN scheduleNextTimers(s, rec, tms, t) ELSE tms

SettleTimers(s, rec, tms, t, ok) == scheduleNextTimers(s, rec, tms, t)

SettleRec(s, rec, tms, t, ok) == scheduleNextRec(s, rec, tms, t)

SettleHistory(i, ok) ==
  /\ onTime' = [onTime EXCEPT ![i.s] = @ /\ i.started = now]
  /\ lastSettle' = [lastSettle EXCEPT ![i.s] =
                      [ok |-> ok, dur |-> now - i.started]]
  /\ UNCHANGED <<starts, prevStart, gap>>

CallbackSettle(i, ok) ==
  /\ i \in inflight
  /\ i.pc = "cb"
  /\ inflight' = inflight \ {i}
  /\ sched' = [sched EXCEPT ![i.s] = SettleRec(i.s, sched[i.s], timers, now, ok)]
  /\ timers' = SettleTimers(i.s, sched[i.s], timers, now, ok)
  /\ SettleHistory(i, ok)
  /\ UNCHANGED <<now, statsVars>>

\* ------------------------------------------------------------------ Stats
\* A JavaScript number: finite with value n, or NaN / +-Infinity.
Num(n) == [fin |-> TRUE, n |-> n]
NaN == [fin |-> FALSE, n |-> 0]

\* isFinite(v) for a number v.
isFinite(v) == v.fin

EmptyMap == [k \in {} |-> <<>>]

\* new FastStats(): no samples.  A summary is the sequence of pushed values.
\* initCollectedStats()
initCollectedStats ==
  [name \in Metrics |->
     [all |-> <<>>, byHost |-> EmptyMap, byCodec |-> EmptyMap,
      byParticipantAndTrack |-> EmptyMap]]

\* An entry of a label-keyed session metric: the key parsed by parseRtStatKey
\* (hostName, participantName, trackId) and the value, a number or a string.
LabelNum(host, participant, track, v) ==
  [host |-> host, participant |-> participant, track |-> track,
   kind |-> "num", num |-> v, str |-> ""]
LabelStr(host, participant, track, codec) ==
  [host |-> host, participant |-> participant, track |-> track,
   kind |-> "str", num |-> Num(0), str |-> codec]

\* A value of the session's metric map: a number, a label-keyed map, or undefined.
ObjNum(v) == [kind |-> "num", num |-> v, map |-> <<>>]
ObjMap(entries) == [kind |-> "map", num |-> Num(0), map |-> entries]
ObjUndefined == [kind |-> "undef", num |-> Num(0), map |-> <<>>]

\* The metric maps session.updateStats() resolves with, as Object.entries():
\* the keys in insertion order.
SessionStatsSamples ==
  { <<[name |-> "cpu", obj |-> ObjNum(Num(1))]>>,
    <<[name |-> "cpu", obj |-> ObjNum(NaN)],
      [name |-> "rtt", obj |-> ObjMap(<<LabelNum("h1", "p1", "t1", Num(2)),
                                        LabelNum("h1", "p1", "t1", NaN),
                                        LabelStr("h1", "p1", "t1", "vp8")>>)]>>,
    <<[name |-> "cpu", obj |-> ObjUndefined],
      [name |-> "rtt", obj |-> ObjNum(Num(1))]>> }

\* The raw distributions a remote collector pushes (CollectedStatsRaw per
\* metric name; a name can be missing).
ExternalStatsSamples ==
  { [name \in {"rtt"} |->
       [all |-> <<Num(3)>>, byHost |-> [h \in {"h2"} |-> <<Num(3)>>],
        byCodec |-> EmptyMap, byParticipantAndTrack |-> EmptyMap]],
    [name \in {"cpu"} |->
       [all |-> <<NaN>>, byHost |-> EmptyMap,
        byCodec |-> EmptyMap, byParticipantAndTrack |-> EmptyMap]] }

ExternalIds == {"e1"}

\* The effective rtcStatsTimeout: Math.max(rtcStatsTimeout, statsInterval).
rtcStatsTimeout == Max2(RtcStatsTimeoutCfg, StatsInterval)

\* enabledForSession(sessionId, enableDetailedStats) with enableDetailedStats = true.
enabledForSession(sessionId) == TRUE

NoTick ==
  [kind |-> "none", failed |-> 0, missed |-> {}, merged |-> FALSE, emitted |-> FALSE,
   alerts |-> FALSE, exported |-> FALSE, exportFailed |-> FALSE]

\* No checkAlertRules() call yet.
NoCheck == [n |-> 0, now |-> 0, recorded |-> <<>>]

\* The state of a Stats instance after its constructor, with the given alert
\* rules (<<>>: none, this.alertRules stays null).
StatsConstructedWith(rules) ==
  /\ alertRules = rules
  /\ alertRulesReport = [d \in {} |-> 0]
  /\ lastCheck = NoCheck
  /\ statsRunning = FALSE
  /\ scheduler = 0
  /\ nsched = 0
  /\ gateway = FALSE
  /\ startPend = 0
  /\ stopPend = [sessions |-> 0, gateway |-> 0]
  /\ nextSessionId = 1
  /\ sessions = <<>>
  /\ hung = {}
  /\ stopListeners = [id \in SessionIds |-> 0]
  /\ external = <<>>
  /\ collectedStats = initCollectedStats
  /\ lastTick = NoTick
  /\ lastCall = [op |-> "none", wasRunning |-> FALSE]

StatsConstructed == StatsConstructedWith(<<>>)

\* ------------------------------------------------- Stats.start / Stats.stop
\* new Scheduler(...); scheduler.start()
NewSchedulerStarted(id) ==
  /\ scheduler' = id
  /\ nsched' = id
  /\ sched' = [sched EXCEPT ![id] = StartRec(id, NewScheduler(StatsInterval), timers, now)]
  /\ timers' = StartTimers(id, NewScheduler(StatsInterval), timers, now)
  /\ starts' = [starts EXCEPT ![id] = 1]

\* start() returns at once when the collector is already running.
StartIsNoopNever(running) == FALSE

StartIsNoop(running) == running

\* Stats.start()
StatsStart ==
  /\ StartIsNoop(statsRunning) \/ nsched + startPend < MaxSched
  /\ lastCall' = [op |-> "start", wasRunning |-> statsRunning]
  /\ IF StartIsNoop(statsRunning)
       THEN UNCHANGED <<schedVars, histVars, cfg, utilVars, alertVars, statsRunning, scheduler, nsched, gateway,
                        startPend, stopPend, nextSessionId, sessions, hung, stopListeners, external, collectedStats,
                        lastTick>>
       ELSE /\ statsRunning' = TRUE
            /\ IF cfg.gateway
                 THEN /\ gateway' = TRUE
                      /\ startPend' = startPend + 1
                      /\ UNCHANGED <<scheduler, nsched, sched, timers, starts>>
                 ELSE /\ NewSchedulerStarted(nsched + 1)
                      /\ UNCHANGED <<gateway, startPend>>
            /\ UNCHANGED <<now, inflight, onTime, prevStart, gap, lastSettle, cfg, utilVars, alertVars, stopPend, nextSessionId,
                           sessions, hung, stopListeners, external, collectedStats, lastTick>>

\* Stats.start() resumes after `await this.deletePushgatewayStats()` (a
\* failure of the delete is caught and logged).
StatsStartResume ==
  /\ startPend > 0
  /\ startPend' = startPend - 1
  /\ NewSchedulerStarted(nsched + 1)
  /\ UNCHANGED <<now, inflight, onTime, prevStart, gap, lastSettle, cfg, utilVars, alertVars, statsRunning,
                 gateway, stopPend, nextSessionId, sessions, hung, stopListeners, external, collectedStats, lastTick,
                 lastCall>>

\* stop() returns at once when the collector is not running.
StopIsNoop(running) == ~running

\* The end of Stats.stop(): re-initialise the summaries, drop the external entries.
StopFinish ==
  /\ collectedStats' = initCollectedStats
  /\ external' = <<>>

\* Stats.stop() from `this.sessions.clear()` on; the loop before it has called
\* removeAllListeners() on every session of the map.
StopAfterSessions(pend) ==
  /\ sessions' = <<>>
  /\ stopListeners' = [id \in SessionIds |-> IF id \in Range(sessions) THEN 0 ELSE stopListeners[id]]
  /\ UNCHANGED hung
  /\ IF gateway
       THEN /\ stopPend' = [pend EXCEPT !.gateway = @ + 1]
            /\ UNCHANGED <<gateway, collectedStats, external>>
       ELSE /\ stopPend' = pend
            /\ UNCHANGED gateway
            /\ StopFinish

\* Stats.stop()
StatsStop ==
  /\ lastCall' = [op |-> "stop", wasRunning |-> statsRunning]
  /\ IF StopIsNoop(statsRunning)
       THEN UNCHANGED <<schedVars, histVars, cfg, utilVars, alertVars, statsRunning, scheduler, nsched, gateway,
                        startPend, stopPend, nextSessionId, sessions, hung, stopListeners, external, collectedStats,
                        lastTick>>
       ELSE /\ statsRunning' = FALSE
            /\ IF scheduler # 0
                 THEN /\ sched' = [sched EXCEPT ![scheduler] = StopRec(@)]
                      /\ timers' = StopTimers(scheduler, sched[scheduler], timers)
                 ELSE UNCHANGED <<sched, timers>>
            /\ scheduler' = 0
            /\ IF sessions # <<>>
                 THEN /\ stopPend' = [stopPend EXCEPT !.sessions = @ + 1]
                      /\ stopListeners' = [stopListeners EXCEPT ![sessions[1]] = 0]
                      /\ UNCHANGED <<sessions, hung, gateway, collectedStats, external>>
                 ELSE StopAfterSessions(stopPend)
            /\ UNCHANGED <<now, inflight, histVars, cfg, utilVars, alertVars, nsched, startPend, nextSessionId,
                           lastTick>>

\* Stats.stop() resumes after the sessions have been stopped.
StatsStopSessionsDone ==
  /\ stopPend.sessions > 0
  /\ StopAfterSessions([stopPend EXCEPT !.sessions = @ - 1])
  /\ UNCHANGED <<schedVars, histVars, cfg, utilVars, alertVars, statsRunning, scheduler, nsched, startPend,
                 nextSessionId, lastTick, lastCall>>

\* Stats.stop() resumes after `await this.deletePushgatewayStats()`.
StatsStopGatewayDone ==
  /\ stopPend.gateway > 0
  /\ stopPend' = [stopPend EXCEPT !.gateway = @ - 1]
  /\ gateway' = FALSE
  /\ StopFinish
  /\ UNCHANGED <<schedVars, histVars, cfg, utilVars, alertVars, statsRunning, scheduler, nsched, startPend,
                 nextSessionId, sessions, hung, stopListeners, lastTick, lastCall>>

\* ------------------------------------------------- sessions, external entries

RECURSIVE Without(_, _)
Without(seq, x) ==
  IF seq = <<>> THEN <<>>
  ELSE IF Head(seq) = x THEN Without(Tail(seq), x)
  ELSE <<Head(seq)>> \o Without(Tail(seq), x)

IndexOf(seq, x) == CHOOSE k \in 1..Len(seq) : seq[k] = x

\* A new Session is created with id = consumeSessionId() and handed to
\* Stats.addSession(session), which throws when the id is already present.
AddSessionUpTo(limit) ==
  /\ nextSessionId <= limit
  /\ nextSessionId \notin Range(sessions)
  /\ nextSessionId' = nextSessionId + 1
  /\ sessions' = Append(sessions, nextSessionId)
  /\ stopListeners' = [stopListeners EXCEPT ![nextSessionId] = @ + 1]
  /\ UNCHANGED <<schedVars, histVars, cfg, utilVars, alertVars, statsRunning, scheduler, nsched, gateway,
                 startPend, stopPend, hung, external, collectedStats, lastTick, lastCall>>

AddSession == AddSessionUpTo(MaxSessions)

LifeAddSession == AddSessionUpTo(LifeMaxSessions)

\* A collectStats() call that iterates this.sessions.entries() sees a deletion:
\* the Map iterator is live, an entry deleted at or before its position moves
\* the position back by one.
IteratorAfterDelete(i, pos) ==
  IF i.pc = "pull" /\ pos <= i.idx THEN [i EXCEPT !.idx = @ - 1] ELSE i

\* Stats.removeSession(id): the listener registered by addSession stays on
\* the session.
RemoveSession(id) ==
  /\ id \in Range(sessions)
  /\ sessions' = Without(sessions, id)
  /\ inflight' = {IteratorAfterDelete(i, IndexOf(sessions, id)) : i \in inflight}
  /\ UNCHANGED <<now, sched, timers, histVars, cfg, utilVars, alertVars, statsRunning, scheduler, nsched,
                 gateway, startPend, stopPend, nextSessionId, hung, stopListeners, external, collectedStats, lastTick,
                 lastCall>>

\* `this.sessions.has(session.id)`
SessionPresentNever(ids, id) == FALSE

SessionPresent(ids, id) == id \in Range(ids)

\* Stats.addSession(session) with a session created earlier (its id has been
\* handed out): it throws when the id is in the map, before it registers the
\* 'stop' listener; otherwise once('stop', ...) and Map.set, which keeps the
\* place of an existing key.
addSession(id) ==
  /\ id < nextSessionId
  /\ SessionPresent(sessions, id) \/ stopListeners[id] < MaxListeners
  /\ lastCall' = [op |-> "addSession", wasRunning |-> statsRunning, id |-> id,
                  threw |-> SessionPresent(sessions, id)]
  /\ IF SessionPresent(sessions, id)
       THEN UNCHANGED <<sessions, stopListeners>>
       ELSE /\ stopListeners' = [stopListeners EXCEPT ![id] = @ + 1]
            /\ sessions' = IF id \in Range(sessions) THEN sessions ELSE Append(sessions, id)
  /\ UNCHANGED <<schedVars, histVars, cfg, utilVars, alertVars, statsRunning, scheduler, nsched, gateway,
                 startPend, stopPend, nextSessionId, hung, external, collectedStats, lastTick>>

\* A session emits 'stop' (the end of Session.stop()): the listeners that
\* addSession registered with once() run, each deletes the id from the map,
\* and are gone.
SessionStopped(id) ==
  /\ id < nextSessionId
  /\ stopListeners[id] > 0
  /\ stopListeners' = [stopListeners EXCEPT ![id] = 0]
  /\ IF id \in Range(sessions)
       THEN /\ sessions' = Without(sessions, id)
            /\ inflight' = {IteratorAfterDelete(i, IndexOf(sessions, id)) : i \in inflight}
       ELSE UNCHANGED <<sessions, inflight>>
  /\ UNCHANGED <<now, sched, timers, histVars, cfg, utilVars, alertVars, statsRunning, scheduler, nsched,
                 gateway, startPend, stopPend, nextSessionId, hung, external, collectedStats, lastTick,
                 lastCall>>

\* The browser of a session stops answering: from now on updateStats() of
\* that session never settles.
SessionHangs(id) ==
  /\ id \in Range(sessions)
  /\ id \notin hung
  /\ hung' = hung \cup {id}
  /\ UNCHANGED <<stopListeners, schedVars, histVars, cfg, utilVars, alertVars, statsRunning, scheduler, nsched, gateway,
                 startPend, stopPend, nextSessionId, sessions, external, collectedStats, lastTick, lastCall>>

\* Map.set(id, entry): a new key is appended, an existing key keeps its place.
MapSet(seq, e) ==
  IF \E k \in 1..Len(seq) : seq[k].id = e.id
    THEN [k \in 1..Len(seq) |-> IF seq[k].id = e.id THEN e ELSE seq[k]]
    ELSE Append(seq, e)

\* Stats.addExternalCollectedStats(id, externalStats, config)
addExternalCollectedStats(id, externalStats) ==
  /\ external' = MapSet(external, [id |-> id, addedTime |-> now,
                                   externalStats |-> externalStats])
  /\ UNCHANGED <<schedVars, histVars, cfg, utilVars, alertVars, statsRunning, scheduler, nsched, gateway,
                 startPend, stopPend, nextSessionId, sessions, hung, stopListeners, collectedStats, lastTick, lastCall>>

\* ------------------------------------------------------------ fast-stats
\* The summaries are Stats objects of the fast-stats package, which stats.ts
\* imports.  A summary is modelled by its stored data; the operators below
\* give what the package reports for data of finite samples.
Infinity == [fin |-> FALSE, n |-> 1]
\* null and undefined: not finite, falsy.
Null == [fin |-> FALSE, n |-> 2]
\* A finite quotient n / over.
Ratio(n, over) == [fin |-> TRUE, n |-> n, over |-> over]

Ints(d) == [k \in 1..Len(d) |-> d[k].n]

RECURSIVE SumTo(_, _)
SumTo(d, k) == IF k = 0 THEN 0 ELSE d[k] + SumTo(d, k - 1)

\* Stats.sum
fsSum(d) == SumTo(d, Len(d))

\* Stats.min and Stats.max of non-empty data.
fsMin(d) == CHOOSE v \in Range(d) : \A w \in Range(d) : v <= w
fsMax(d) == CHOOSE v \in Range(d) : \A w \in Range(d) : v >= w

\* The sorted copy of the data.
RECURSIVE SortedData(_)
SortedData(d) ==
  IF d = <<>> THEN <<>>
  ELSE LET k == CHOOSE j \in 1..Len(d) : \A m \in 1..Len(d) : d[j] <= d[m]
       IN <<d[k]>> \o SortedData([j \in 1..(Len(d) - 1) |-> IF j < k THEN d[j] ELSE d[j + 1]])

\* Twice Stats.percentile(p) of non-empty data: the element of rank
\* floor(length * p / 100) of the sorted data, the minimum and the maximum at
\* the two ends, and for p = 25, 50, 75 the mean of the two elements around
\* (length - 1) * p / 100.
percentile2(d, p) ==
  LET n == Len(d)
      sd == SortedData(d)
  IN IF p <= 0 THEN 2 * fsMin(d)
     ELSE IF p \in {25, 50, 75}
       THEN sd[((n - 1) * p) \div 100 + 1] + sd[((n - 1) * p + 99) \div 100 + 1]
       ELSE LET v == IF p >= 100 THEN n - 1 ELSE (n * p) \div 100
            IN IF v = 0 THEN 2 * fsMin(d)
               ELSE IF v = n - 1 THEN 2 * fsMax(d)
               ELSE 2 * sd[v + 1]

\* Math.round of x2 / 2.
Round2(x2) == (x2 + 1) \div 2

\* Math.round(num / den); NaN for 0 / 0 and Infinity for x / 0.
RoundRatio(num, den) ==
  IF den = 0 THEN (IF num = 0 THEN NaN ELSE Infinity)
  ELSE IF den > 0 THEN Num((2 * num + den) \div (2 * den))
  ELSE Num((-2 * num - den) \div (-2 * den))

\* calculateFailAmountPercentile(stat, percentile)
calculateFailAmountPercentile(stat, percentile) == Round2(percentile2(stat, percentile))

\* `x || 0`: a falsy x (0, NaN, null, undefined) is replaced by 0.
OrZeroNever(x) == x

OrZero(x) == IF x.fin /\ x.n # 0 THEN x ELSE Num(0)

\* formatStats(s) of a summary whose data is d.  The mean is the quotient
\* sum / length, stddev is given by its square.
formatStats(d) ==
  LET e == d = <<>>
      i == Ints(d)
      n == Len(d)
  IN [length |-> OrZero(Num(n)),
      sum |-> OrZero(Num(fsSum(i))),
      mean |-> OrZero(IF e THEN NaN ELSE Ratio(fsSum(i), n)),
      stddev |-> OrZero(IF e THEN NaN
                        ELSE Ratio(n * fsSum([k \in 1..n |-> i[k] * i[k]]) - fsSum(i) * fsSum(i), n * n)),
      p5 |-> OrZero(IF e THEN NaN ELSE Num(percentile2(i, 5) \div 2)),
      p95 |-> OrZero(IF e THEN NaN ELSE Num(percentile2(i, 95) \div 2)),
      min |-> OrZero(IF e THEN Null ELSE Num(fsMin(i))),
      max |-> OrZero(IF e THEN Null ELSE Num(fsMax(i)))]

\* ------------------------------------------------------------ alert rules
\* Date.now() per second.
MsPerSecond == 1000
\* this.startTimestamp: the constructor runs at Date.now() = 1.
startTimestamp == 1
\* The configured alertRulesFailPercentile (its default).
alertRulesFailPercentile == 95

\* An AlertRuleValue: every operator is a set, empty when undefined.
NoRuleValue ==
  [eq |-> {}, gt |-> {}, gte |-> {}, lt |-> {}, lte |-> {}, after |-> {}, before |-> {},
   skip_lt |-> {}, skip_lte |-> {}, skip_gt |-> {}, skip_gte |-> {}]

Defined(x) == x # {}
ValueOf(x) == CHOOSE v \in x : TRUE

\* The entries of an AlertRule, as Object.entries() lists them.
TagsEntry(tags) == [k |-> "tags", tags |-> tags, num |-> 0, values |-> <<>>]
FailPercentileEntry(p) == [k |-> "failPercentile", tags |-> {}, num |-> p, values |-> <<>>]
CheckEntry(ruleKey, values) == [k |-> ruleKey, tags |-> {}, num |-> 0, values |-> values]

\* getAlertRuleDesc(ruleKey, ruleValue): the description names the check key,
\* the comparison operators and the window, not the $skip_ operators.
getAlertRuleDesc(ruleKey, ruleValue) ==
  [ruleKey |-> ruleKey, eq |-> ruleValue.eq, gt |-> ruleValue.gt, gte |-> ruleValue.gte,
   lt |-> ruleValue.lt, lte |-> ruleValue.lte, after |-> ruleValue.after,
   before |-> ruleValue.before]

\* calculateFailAmount without Math.min(1, ...).
calculateFailAmountUncapped(checkValue, ruleValue) ==
  LET dist == IF checkValue >= ruleValue THEN checkValue - ruleValue ELSE ruleValue - checkValue
      abs == IF checkValue >= 0 THEN checkValue ELSE -checkValue
  IN IF ruleValue # 0
       THEN (IF ruleValue > 0 THEN (100 * dist) \div ruleValue
             ELSE -((100 * dist) \div (-ruleValue)))
       ELSE 100 * abs

\* calculateFailAmount(checkValue, ruleValue); the quotient is exact for the
\* thresholds of the model, which divide 100.
calculateFailAmount(checkValue, ruleValue) ==
  LET dist == IF checkValue >= ruleValue THEN checkValue - ruleValue ELSE ruleValue - checkValue
      abs == IF checkValue >= 0 THEN checkValue ELSE -checkValue
  IN IF ruleValue # 0
       THEN (IF ruleValue > 0 /\ dist >= ruleValue THEN 100
             ELSE IF ruleValue > 0 THEN (100 * dist) \div ruleValue
             ELSE -((100 * dist) \div (-ruleValue)))
       ELSE 100 * Min2(1, abs)

\* The window test of checkAlertRules: the tick is before $after or past
\* $before (elapsed in ms since startTimestamp, the operators in seconds).
OutsideWindowNever(ruleValue, elapsed) == FALSE

OutsideWindow(ruleValue, elapsed) ==
  \/ Defined(ruleValue.after) /\ elapsed < MsPerSecond * ValueOf(ruleValue.after)
  \/ Defined(ruleValue.before) /\ elapsed > MsPerSecond * ValueOf(ruleValue.before)

\* The $skip_ test of checkAlertRules.
SkippedNever(ruleValue, checkValue) == FALSE

Skipped(ruleValue, checkValue) ==
  \/ Defined(ruleValue.skip_lt) /\ checkValue < ValueOf(ruleValue.skip_lt)
  \/ Defined(ruleValue.skip_lte) /\ checkValue <= ValueOf(ruleValue.skip_lte)
  \/ Defined(ruleValue.skip_gt) /\ checkValue > ValueOf(ruleValue.skip_gt)
  \/ Defined(ruleValue.skip_gte) /\ checkValue >= ValueOf(ruleValue.skip_gte)

\* The outcome of one evaluation: failed and failAmount.
Passed == [failed |-> FALSE, failAmount |-> 0]
FailedBy(checkValue, threshold) ==
  [failed |-> TRUE, failAmount |-> calculateFailAmount(checkValue, threshold)]

\* `if ($lt !== undefined) ... else if ($lte !== undefined) ...`
UpperBound(ruleValue, checkValue) ==
  IF Defined(ruleValue.lt)
    THEN (IF checkValue >= ValueOf(ruleValue.lt)
            THEN FailedBy(checkValue, ValueOf(ruleValue.lt)) ELSE Passed)
    ELSE IF Defined(ruleValue.lte) /\ checkValue > ValueOf(ruleValue.lte)
      THEN FailedBy(checkValue, ValueOf(ruleValue.lte))
      ELSE Passed

\* `if ($gt !== undefined) ... else if ($gte !== undefined) ...`
LowerBound(ruleValue, checkValue) ==
  IF Defined(ruleValue.gt)
    THEN (IF checkValue <= ValueOf(ruleValue.gt)
            THEN FailedBy(checkValue, ValueOf(ruleValue.gt)) ELSE Passed)
    ELSE IF Defined(ruleValue.gte) /\ checkValue < ValueOf(ruleValue.gte)
      THEN FailedBy(checkValue, ValueOf(ruleValue.gte))
      ELSE Passed

\* The pass/fail decision of checkAlertRules: $eq alone when declared,
\* otherwise the upper bound and, if that did not fail, the lower bound.
CheckOutcome(ruleValue, checkValue) ==
  IF Defined(ruleValue.eq)
    THEN (IF checkValue # ValueOf(ruleValue.eq)
            THEN FailedBy(checkValue, ValueOf(ruleValue.eq)) ELSE Passed)
    ELSE IF UpperBound(ruleValue, checkValue).failed
      THEN UpperBound(ruleValue, checkValue)
      ELSE LowerBound(ruleValue, checkValue)

\* The report a rule description starts with.
NewReportValue ==
  [totalFails |-> 0, totalFailsTime |-> 0, totalFailsTimePerc |-> Num(0), lastFailed |-> 0,
   valueStats |-> <<>>, failAmountStats |-> <<>>, failAmountPercentile |-> 0]

\* totalFailsTime after an evaluation at time t: a failure right after a
\* failure adds the time since that one.  (Kept in ms; the code divides the
\* difference by 1000.)
FailsTimeAlways(old, failed, t) == IF failed THEN old.totalFailsTime + (t - old.lastFailed) ELSE old.totalFailsTime

FailsTime(old, failed, t) ==
  IF failed /\ old.lastFailed # 0
    THEN old.totalFailsTime + (t - old.lastFailed)
    ELSE old.totalFailsTime

\* updateRulesReport that pushes the check value of failed evaluations only.
updateRulesReportFailsOnly(report, key, checkValue, ruleDesc, failed, failAmount, t, elapsed, failPercentile) ==
  LET id == [key |-> key, desc |-> ruleDesc]
      old == IF id \in DOMAIN report THEN report[id] ELSE NewReportValue
      time == FailsTime(old, failed, t)
      amounts == Append(old.failAmountStats, failAmount)
      new == [totalFails |-> IF failed THEN old.totalFails + 1 ELSE old.totalFails,
              totalFailsTime |-> time,
              totalFailsTimePerc |-> RoundRatio(100 * time, elapsed),
              lastFailed |-> IF failed THEN t ELSE 0,
              valueStats |-> IF failed THEN Append(old.valueStats, checkValue) ELSE old.valueStats,
              failAmountStats |-> amounts,
              failAmountPercentile |-> calculateFailAmountPercentile(amounts, failPercentile)]
  IN [x \in DOMAIN report \cup {id} |-> IF x = id THEN new ELSE report[x]]

\* updateRulesReport(key, checkValue, ruleDesc, failed, failAmount, now,
\* elapsedSeconds, failPercentile), elapsed in ms.  The Map of Maps is one
\* function over [key, desc].
updateRulesReport(report, key, checkValue, ruleDesc, failed, failAmount, t, elapsed, failPercentile) ==
  LET id == [key |-> key, desc |-> ruleDesc]
      old == IF id \in DOMAIN report THEN report[id] ELSE NewReportValue
      time == FailsTime(old, failed, t)
      amounts == Append(old.failAmountStats, failAmount)
      new == [totalFails |-> IF failed THEN old.totalFails + 1 ELSE old.totalFails,
              totalFailsTime |-> time,
              totalFailsTimePerc |-> RoundRatio(100 * time, elapsed),
              lastFailed |-> IF failed THEN t ELSE 0,
              valueStats |-> Append(old.valueStats, checkValue),
              failAmountStats |-> amounts,
              failAmountPercentile |-> calculateFailAmountPercentile(amounts, failPercentile)]
  IN [x \in DOMAIN report \cup {id} |-> IF x = id THEN new ELSE report[x]]

\* value[ruleKey] of checkAlertRules, undefined for a key formatStats lacks.
CheckValue(value, ruleKey) == IF ruleKey \in DOMAIN value THEN value[ruleKey] ELSE Null

\* The loop over the variants of one check key.  acc holds the report, the
\* running ruleElapsedSeconds (in ms) and the log of the evaluations recorded.
RECURSIVE CheckVariants(_, _, _, _, _, _, _, _)
CheckVariants(acc, key, ruleKey, ruleValues, k, value, t, failPercentile) ==
  IF k > Len(ruleValues) THEN acc
  ELSE
    LET ruleValue == ruleValues[k]
        checkValue == CheckValue(value, ruleKey)
        ruleElapsed == IF Defined(ruleValue.after)
                         THEN acc.ruleElapsed - MsPerSecond * ValueOf(ruleValue.after)
                         ELSE acc.ruleElapsed
        ruleDesc == getAlertRuleDesc(ruleKey, ruleValue)
        outcome == CheckOutcome(ruleValue, checkValue.n)
        next ==
          IF OutsideWindow(ruleValue, t - startTimestamp) THEN acc
          ELSE IF ~isFinite(checkValue) \/ Skipped(ruleValue, checkValue.n)
            THEN [acc EXCEPT !.ruleElapsed = ruleElapsed]
            ELSE [report |-> updateRulesReport(acc.report, key, checkValue.n, ruleDesc,
                                               outcome.failed, outcome.failAmount, t,
                                               ruleElapsed, failPercentile),
                  ruleElapsed |-> ruleElapsed,
                  recorded |-> Append(acc.recorded,
                                      [key |-> key, ruleKey |-> ruleKey, ruleValue |-> ruleValue,
                                       checkValue |-> checkValue.n, failed |-> outcome.failed,
                                       failAmount |-> outcome.failAmount,
                                       elapsed |-> ruleElapsed,
                                       failPercentile |-> failPercentile])]
    IN CheckVariants(next, key, ruleKey, ruleValues, k + 1, value, t, failPercentile)

\* The loop over Object.entries(rule): `tags` is skipped, `failPercentile`
\* replaces the percentile for the entries after it.
RECURSIVE CheckEntries(_, _, _, _, _, _, _)
CheckEntries(acc, key, entries, k, value, t, failPercentile) ==
  IF k > Len(entries) THEN acc
  ELSE
    LET e == entries[k]
    IN IF e.k = "tags" THEN CheckEntries(acc, key, entries, k + 1, value, t, failPercentile)
       ELSE IF e.k = "failPercentile"
         THEN CheckEntries(acc, key, entries, k + 1, value, t, e.num)
         ELSE CheckEntries(CheckVariants([acc EXCEPT !.ruleElapsed = t - startTimestamp],
                                         key, e.k, e.values, 1, value, t, failPercentile),
                           key, entries, k + 1, value, t, failPercentile)

\* The loop over Object.entries(this.alertRules).
RECURSIVE CheckRules(_, _, _, _, _)
CheckRules(acc, rules, k, cs, t) ==
  IF k > Len(rules) THEN acc
  ELSE IF rules[k].key \notin DOMAIN cs THEN CheckRules(acc, rules, k + 1, cs, t)
  ELSE CheckRules(CheckEntries(acc, rules[k].key, rules[k].rule, 1,
                               formatStats(cs[rules[k].key].all), t, alertRulesFailPercentile),
                  rules, k + 1, cs, t)

\* checkAlertRules() at time t: the new report and the evaluations recorded.
checkAlertRules(rules, running, cs, report, t) ==
  IF rules = <<>> \/ ~running
    THEN [report |-> report, ruleElapsed |-> 0, recorded |-> <<>>]
    ELSE CheckRules([report |-> report, ruleElapsed |-> 0, recorded |-> <<>>], rules, 1, cs, t)

\* getAlertRulesTags(): for every tag of a rule that has reports, the
\* failAmountPercentile of each report of the rule's key, in the order of the
\* rules (the order does not matter to the percentile).
TagsOf(rule) ==
  LET tagged == {k \in 1..Len(rule) : rule[k].k = "tags"}
  IN IF tagged = {} THEN {} ELSE rule[CHOOSE k \in tagged : TRUE].tags

RuleOf(rules, key) == rules[CHOOSE k \in 1..Len(rules) : rules[k].key = key].rule

RECURSIVE SeqOfSet(_)
SeqOfSet(S) == IF S = {} THEN <<>> ELSE LET x == CHOOSE y \in S : TRUE IN <<x>> \o SeqOfSet(S \ {x})

getAlertRulesTags(rules, report) ==
  LET tags == UNION {TagsOf(RuleOf(rules, id.key)) : id \in DOMAIN report}
      ids(tag) == SeqOfSet({id \in DOMAIN report : tag \in TagsOf(RuleOf(rules, id.key))})
  IN [tag \in tags |-> [k \in 1..Len(ids(tag)) |-> report[ids(tag)[k]].failAmountPercentile]]

\* The score of a tag in the reports and the metrics.
TagScore(rules, report, tag) ==
  calculateFailAmountPercentile(getAlertRulesTags(rules, report)[tag], alertRulesFailPercentile)

\* ------------------------------------------------------------ collectStats
\* summary.push(v) on the summary under a key, created when missing.
PushKey(map, key, v) ==
  IF key \in DOMAIN map
    THEN [map EXCEPT ![key] = Append(@, v)]
    ELSE [k \in DOMAIN map \cup {key} |-> IF k = key THEN <<v>> ELSE map[k]]

\* summary.push(values) with an array on the summary under a key.
PushKeyAll(map, key, values) ==
  IF key \in DOMAIN map
    THEN [map EXCEPT ![key] = @ \o values]
    ELSE [k \in DOMAIN map \cup {key} |-> IF k = key THEN values ELSE map[k]]

\* record[key] = v
SetKey(map, key, v) ==
  [k \in DOMAIN map \cup {key} |-> IF k = key THEN v ELSE map[k]]

\* The reset without `stats.byParticipantAndTrack = {}`.
ResetCollectedStatsKeeping(cs) ==
  [name \in Metrics |->
     [all |-> <<>>,
      byHost |-> [h \in DOMAIN cs[name].byHost |-> <<>>],
      byCodec |-> [c \in DOMAIN cs[name].byCodec |-> <<>>],
      byParticipantAndTrack |-> cs[name].byParticipantAndTrack]]

\* "Reset collectedStats object": every summary is emptied, the keys of byHost
\* and byCodec stay, byParticipantAndTrack is replaced by {}.
ResetCollectedStats(cs) ==
  [name \in Metrics |->
     [all |-> <<>>,
      byHost |-> [h \in DOMAIN cs[name].byHost |-> <<>>],
      byCodec |-> [c \in DOMAIN cs[name].byCodec |-> <<>>],
      byParticipantAndTrack |-> EmptyMap]]

\* One [key, value] of a label-keyed metric of session sid.
PushLabelled(c, e, sid) ==
  IF e.kind = "num" /\ isFinite(e.num)
    THEN [c EXCEPT !.all = Append(@, e.num),
                   !.byHost = PushKey(@, e.host, e.num),
                   !.byParticipantAndTrack =
                      IF enabledForSession(sid) /\ e.participant # ""
                        THEN SetKey(@, <<e.participant, e.track>>, e.num)
                        ELSE @]
  ELSE IF e.kind = "str"
    THEN [c EXCEPT !.all = Append(@, Num(1)),
                   !.byCodec = PushKey(@, e.str, Num(1))]
  ELSE c

RECURSIVE PushLabelledAll(_, _, _)
PushLabelledAll(c, entries, sid) ==
  IF entries = <<>> THEN c
  ELSE PushLabelledAll(PushLabelled(c, Head(entries), sid), Tail(entries), sid)

\* One metric of a session: a finite number goes to "all"; anything else is
\* walked with Object.entries(), which is empty for a non-finite number.
PushMetric(c, obj, sid) ==
  IF obj.kind = "num" /\ isFinite(obj.num)
    THEN [c EXCEPT !.all = Append(@, obj.num)]
  ELSE IF obj.kind = "map"
    THEN PushLabelledAll(c, obj.map, sid)
  ELSE c

\* The loop over Object.entries(sessionStats): [cs, returned]; returned when
\* an entry is undefined (`return` leaves collectStats).
RECURSIVE PushSessionStats(_, _, _)
PushSessionStats(cs, entries, sid) ==
  IF entries = <<>> THEN [cs |-> cs, returned |-> FALSE]
  ELSE IF Head(entries).obj.kind = "undef" THEN [cs |-> cs, returned |-> TRUE]
  ELSE PushSessionStats(
         [cs EXCEPT ![Head(entries).name] = PushMetric(@, Head(entries).obj, sid)],
         Tail(entries), sid)

RECURSIVE PushByKey(_, _, _)
PushByKey(map, raw, keys) ==
  IF keys = {} THEN map
  ELSE LET k == CHOOSE x \in keys : TRUE
       IN PushByKey(PushKeyAll(map, k, raw[k]), raw, keys \ {k})

RECURSIVE SetByKey(_, _, _)
SetByKey(map, raw, keys) ==
  IF keys = {} THEN map
  ELSE LET k == CHOOSE x \in keys : TRUE
       IN SetByKey(SetKey(map, k, raw[k]), raw, keys \ {k})

\* "Add metrics" of one external entry: the raw arrays are pushed as they are.
MergeExternalStats(cs, externalStats) ==
  [name \in Metrics |->
     IF name \notin DOMAIN externalStats THEN cs[name]
     ELSE LET raw == externalStats[name]
          IN [all |-> cs[name].all \o raw.all,
              byHost |-> PushByKey(cs[name].byHost, raw.byHost, DOMAIN raw.byHost),
              byCodec |-> PushByKey(cs[name].byCodec, raw.byCodec, DOMAIN raw.byCodec),
              byParticipantAndTrack |->
                SetByKey(cs[name].byParticipantAndTrack, raw.byParticipantAndTrack,
                         DOMAIN raw.byParticipantAndTrack)]]

\* now - addedTime > this.rtcStatsTimeout * 1000, with the tick's `now`.
ExpiredAtTimeout(e, tickNow) == tickNow - e.addedTime >= rtcStatsTimeout

Expired(e, tickNow) == tickNow - e.addedTime > rtcStatsTimeout

\* "Add external collected stats": an entry older than rtcStatsTimeout at the
\* tick's `now` is deleted, the others are merged.  [cs, external]
RECURSIVE MergeExternal(_, _, _, _)
MergeExternal(cs, entries, kept, tickNow) ==
  IF entries = <<>> THEN [cs |-> cs, external |-> kept]
  ELSE IF Expired(Head(entries), tickNow)
    THEN MergeExternal(cs, Tail(entries), kept, tickNow)
  ELSE MergeExternal(MergeExternalStats(cs, Head(entries).externalStats),
                     Tail(entries), Append(kept, Head(entries)), tickNow)

\* History: the number of samples a metric map of a session contributes to
\* the "all" summary of a metric: one per finite number and one per codec
\* string, up to the first undefined entry.
RECURSIVE SessionSamples(_, _)
SessionSamples(entries, name) ==
  IF entries = <<>> \/ Head(entries).obj.kind = "undef" THEN 0
  ELSE SessionSamples(Tail(entries), name) +
       (IF Head(entries).name # name THEN 0
        ELSE IF Head(entries).obj.kind = "num"
          THEN (IF Head(entries).obj.num.fin THEN 1 ELSE 0)
          ELSE Cardinality({k \in 1..Len(Head(entries).obj.map) :
                             \/ Head(entries).obj.map[k].kind = "str"
                             \/ Head(entries).obj.map[k].kind = "num" /\
                                  Head(entries).obj.map[k].num.fin}))

\* History: the number of values the external entries hold for the "all"
\* summary of a metric.
RECURSIVE ExternalSamples(_, _)
ExternalSamples(entries, name) ==
  IF entries = <<>> THEN 0
  ELSE ExternalSamples(Tail(entries), name) +
       (IF name \in DOMAIN Head(entries).externalStats
          THEN Len(Head(entries).externalStats[name].all) ELSE 0)

\* The sessions the loop of collectStats has not reached yet.
SessionsAfter(idx) == {sessions[k] : k \in (idx + 1)..Len(sessions)}

TickLog(kind, failed, missed, done, alerts) ==
  [kind |-> kind, failed |-> failed, missed |-> missed, merged |-> done, emitted |-> done,
   alerts |-> alerts, exported |-> done, exportFailed |-> FALSE]

\* The promise of collectStats settles inside the timer handler of Scheduler
\* i.s: catch logs a rejection, finally calls scheduleNext().  tms are the
\* pending timers at that moment.
TickSettles(i, tms, ok, log) ==
  /\ sched' = [sched EXCEPT ![i.s] = SettleRec(i.s, sched[i.s], tms, now, ok)]
  /\ timers' = SettleTimers(i.s, sched[i.s], tms, now, ok)
  /\ lastTick' = log

\* Date.now() in milliseconds where the clock counts seconds, from 1 when the
\* collector is constructed.
DateNowMs == startTimestamp + (now - 1) * MsPerSecond

\* `this.checkAlertRules()` inside collectStats, on the summaries cs.  Without
\* alert rules the call returns at its first test.
AlertsChecked(cs) ==
  /\ UNCHANGED alertRules
  /\ IF alertRules = <<>>
       THEN UNCHANGED <<alertRulesReport, lastCheck>>
       ELSE LET r == checkAlertRules(alertRules, statsRunning, cs, alertRulesReport, DateNowMs)
            IN /\ alertRulesReport' = r.report
               /\ lastCheck' = [n |-> lastCheck.n + 1, now |-> DateNowMs, recorded |-> r.recorded]

\* collectStats after the loop over the sessions, up to its next await: merge
\* the external entries, emit 'stats', then either await the push to the
\* external instance or check the alert rules and await the exporters.
\* rest are the other invocations in flight.
AfterSessions(i, cs, rest) ==
  LET m == MergeExternal(cs, external, <<>>, i.started)
      pushed == [name \in Metrics |-> i.pushed[name] + ExternalSamples(m.external, name)]
  IN /\ collectedStats' = m.cs
     /\ external' = m.external
     /\ inflight' = rest \cup
          {IF cfg.pushStats
             THEN [i EXCEPT !.pc = "push", !.idx = 0, !.sid = 0, !.pushed = pushed]
             ELSE [i EXCEPT !.pc = "export", !.idx = 0, !.sid = 0,
                            !.alerts = statsRunning, !.pushed = pushed]}
     /\ IF cfg.pushStats THEN UNCHANGED alertVars ELSE AlertsChecked(m.cs)

\* A timer of the Scheduler of Stats fires: collectStats(now) runs up to its
\* first await, or returns at once.
StatsTimerFire(t) ==
  LET i == Invocation(t, "pull", 1, 0)
      tms == FireTimers(t, timers)
  IN
  /\ t \in timers
  /\ Due(t)
  /\ IF ~statsRunning \/ (sessions = <<>> /\ external = <<>>)
       THEN /\ TickSettles(i, tms, TRUE,
                           TickLog(IF ~statsRunning THEN "notRunning" ELSE "skipped",
                                   0, {}, FALSE, FALSE))
            /\ UNCHANGED <<inflight, collectedStats, external, alertVars>>
       ELSE /\ timers' = tms
            /\ IF sessions # <<>>
                 THEN /\ inflight' = inflight \cup {[i EXCEPT !.sid = sessions[1]]}
                      /\ collectedStats' = ResetCollectedStats(collectedStats)
                      /\ UNCHANGED <<external, alertVars>>
                 ELSE AfterSessions(i, ResetCollectedStats(collectedStats), inflight)
            /\ UNCHANGED <<sched, lastTick>>
  /\ UNCHANGED <<now, histVars, cfg, utilVars, statsRunning, scheduler, nsched, gateway, startPend,
                 stopPend, nextSessionId, sessions, hung, stopListeners, lastCall>>

\* `await session.updateStats()` resolves with a metric map.
PullResolve(i, sessionStats) ==
  LET r == PushSessionStats(collectedStats, sessionStats, i.sid)
      rest == inflight \ {i}
      pulled == [i EXCEPT !.pushed = [name \in Metrics |->
                                       i.pushed[name] + SessionSamples(sessionStats, name)]]
  IN
  /\ i \in inflight
  /\ i.pc = "pull"
  /\ i.sid \notin hung
  /\ IF r.returned
       THEN /\ collectedStats' = r.cs
            /\ inflight' = rest
            /\ TickSettles(i, timers, TRUE,
                           TickLog("returned", 0, SessionsAfter(i.idx), FALSE, FALSE))
            /\ UNCHANGED <<external, alertVars>>
       ELSE /\ IF i.idx + 1 <= Len(sessions)
                 THEN /\ collectedStats' = r.cs
                      /\ inflight' = rest \cup
                           {[pulled EXCEPT !.idx = @ + 1, !.sid = sessions[i.idx + 1]]}
                      /\ UNCHANGED <<external, alertVars>>
                 ELSE AfterSessions(pulled, r.cs, rest)
            /\ UNCHANGED <<sched, timers, lastTick>>
  /\ UNCHANGED <<now, histVars, cfg, utilVars, statsRunning, scheduler, nsched, gateway,
                 startPend, stopPend, nextSessionId, sessions, hung, stopListeners, lastCall>>

\* `await session.updateStats()` rejects: nothing in collectStats catches it.
PullReject(i) ==
  /\ i \in inflight
  /\ i.pc = "pull"
  /\ i.sid \notin hung
  /\ inflight' = inflight \ {i}
  /\ TickSettles(i, timers, FALSE,
                 TickLog("rejected", i.sid, SessionsAfter(i.idx), FALSE, FALSE))
  /\ UNCHANGED <<now, histVars, cfg, utilVars, alertVars, statsRunning, scheduler, nsched, gateway,
                 startPend, stopPend, nextSessionId, sessions, hung, stopListeners, external, collectedStats, lastCall>>

\* The try/catch around `await this.pushStatsInstance.put(...)`: a failed
\* push is caught and logged.
PushCaughtNever(ok) == ok

PushCaught(ok) == TRUE

\* The push to the external instance settles, ok = it succeeded;
\* checkAlertRules(), consoleShowStats(), then the exporters start.
PushSettle(i, ok) ==
  /\ i \in inflight
  /\ i.pc = "push"
  /\ IF PushCaught(ok)
       THEN /\ inflight' = (inflight \ {i}) \cup
                 {[i EXCEPT !.pc = "export", !.alerts = statsRunning, !.exportFailed = ~ok]}
            /\ AlertsChecked(collectedStats)
            /\ UNCHANGED <<sched, timers, lastTick>>
       ELSE /\ inflight' = inflight \ {i}
            /\ TickSettles(i, timers, FALSE,
                           [TickLog("rejected", 0, {}, FALSE, FALSE) EXCEPT
                              !.merged = TRUE, !.emitted = TRUE, !.exportFailed = TRUE])
            /\ UNCHANGED alertVars
  /\ UNCHANGED <<now, histVars, cfg, utilVars, statsRunning, scheduler, nsched, gateway,
                 startPend, stopPend, nextSessionId, sessions, hung, stopListeners, external, collectedStats, lastCall>>

\* Promise.allSettled([writeStats(), writeDetailedStats(), sendToPushGateway(),
\* writeAlertRulesReport()]) settles, ok = every exporter fulfilled:
\* collectStats resolves in both cases.
ExportSettle(i, ok) ==
  /\ i \in inflight
  /\ i.pc = "export"
  /\ inflight' = inflight \ {i}
  /\ TickSettles(i, timers, TRUE,
                 [TickLog("full", 0, {}, TRUE, i.alerts) EXCEPT
                    !.exportFailed = i.exportFailed \/ ~ok])
  /\ UNCHANGED <<now, histVars, cfg, utilVars, alertVars, statsRunning, scheduler, nsched, gateway,
                 startPend, stopPend, nextSessionId, sessions, hung, stopListeners, external, collectedStats, lastCall>>

\* The clock advances (Stats specifications).
StatsAdvance == ClockAdvances(MaxStatsTime)

LifeAdvance == ClockAdvances(LifeMaxTime)

\* --------------------------------------------------------- exit handlers
ExitHandlerIds == 1..MaxExitHandlers

\* The module-level state after utils.ts is loaded.
ExitHandlersLoaded ==
  /\ exitHandlers = <<>>
  /\ runExitHandlersPromise = "null"
  /\ exitRuns = <<>>
  /\ exitCalls = 0
  /\ exitInvoked = [h \in ExitHandlerIds |-> 0]
  /\ exitThrew = {}

\* ------------------------------------------------------- chunkedPromiseAll
\* No chunkedPromiseAll() call has been made.
ChunkedIdle ==
  /\ chunkCall = [state |-> "idle", items |-> 0, chunkSize |-> 1, index |-> 0]
  /\ chunkFlight = {}
  /\ chunkSettled = [i \in 0..(MaxItems - 1) |-> "none"]

\* The indexes of items.slice(index, index + chunkSize).
Slice(call) ==
  {i \in 0..(call.items - 1) : call.index <= i /\ i < call.index + call.chunkSize}

\* One pass of the for loop up to its await: past the last item the call
\* returns results; otherwise f is called on every item of the slice, where
\* it throws at once (throwers) or returns a promise, and the call awaits
\* Promise.allSettled.
ChunkLoop(call, throwers) ==
  /\ throwers \subseteq Slice(call)
  /\ IF call.index < call.items
       THEN /\ chunkCall' = [call EXCEPT !.state = "await"]
            /\ chunkFlight' = chunkFlight \cup (Slice(call) \ throwers)
            /\ chunkSettled' = [i \in DOMAIN chunkSettled |->
                                  IF i \in throwers THEN "rejected" ELSE chunkSettled[i]]
       ELSE /\ throwers = {}
            /\ chunkCall' = [call EXCEPT !.state = "resolved"]
            /\ UNCHANGED <<chunkFlight, chunkSettled>>

\* chunkedPromiseAll(items, f, chunkSize), up to its first await.
chunkedPromiseAll(n, size, throwers) ==
  /\ chunkCall.state = "idle"
  /\ ChunkLoop([state |-> "idle", items |-> n, chunkSize |-> size, index |-> 0], throwers)
  /\ UNCHANGED <<collectorVars, exitVars, measVars>>

\* The promise f returned for item i settles: fulfilled with a value, which
\* is stored in results, fulfilled with undefined, or rejected.
FSettles(i, how) ==
  /\ i \in chunkFlight
  /\ chunkFlight' = chunkFlight \ {i}
  /\ chunkSettled' = [chunkSettled EXCEPT ![i] = how]
  /\ UNCHANGED <<chunkCall, collectorVars, exitVars, measVars>>

\* Promise.allSettled: every promise of the chunk has settled.
AnySettled(call, flight) == Slice(call) \ flight # {}

AllSettled(call, flight) == Slice(call) \cap flight = {}

\* The awaited Promise.allSettled resolves: index += chunkSize and the loop
\* goes on.
ChunkAwaited(throwers) ==
  /\ chunkCall.state = "await"
  /\ AllSettled(chunkCall, chunkFlight)
  /\ ChunkLoop([chunkCall EXCEPT !.index = @ + chunkCall.chunkSize], throwers)
  /\ UNCHANGED <<collectorVars, exitVars, measVars>>

\* ----------------------------------------------------------- MeasuredStats
\* The values pushed are JavaScript numbers: finite ones or NaN.
MeasValues == {Num(1), Num(2), NaN}

\* ToNumber: null, which JSON.parse gives for a value that was not finite
\* when it was stored, counts as 0 in arithmetic.
ToNumber(v) == IF v = Null THEN Num(0) ELSE v

\* a + b and a - b on finite numbers, NaN and null.
JsAdd(a, b) ==
  IF ToNumber(a).fin /\ ToNumber(b).fin THEN Num(ToNumber(a).n + ToNumber(b).n) ELSE NaN

JsSub(a, b) ==
  IF ToNumber(a).fin /\ ToNumber(b).fin THEN Num(ToNumber(a).n - ToNumber(b).n) ELSE NaN

\* JSON.parse(JSON.stringify(v)) of a number: a non-finite one becomes null.
Json(v) == IF v.fin THEN v ELSE Null

\* store(): the item written, or the old one when storeId is ''.
store(c, st, sum, cnt) ==
  IF c.storeId
    THEN <<[stats |-> [i \in DOMAIN st |-> [st[i] EXCEPT !.value = Json(@)]],
            statsSum |-> Json(sum), statsCount |-> cnt]>>
    ELSE localStorage

\* new MeasuredStats(c): empty, then load() takes the stored item if any.
MeasuredStatsNew(c, item) ==
  /\ measCfg = c
  /\ stats = IF c.storeId /\ item # <<>> THEN item[1].stats ELSE <<>>
  /\ statsSum = IF c.storeId /\ item # <<>> THEN item[1].statsSum ELSE Num(0)
  /\ statsCount = IF c.storeId /\ item # <<>> THEN item[1].statsCount ELSE 0

\* A page that uses no MeasuredStats.
PageIdle ==
  /\ MeasuredStatsNew([ttl |-> 0, maxItems |-> 0, storeId |-> FALSE], <<>>)
  /\ localStorage = <<>>
  /\ pageNow = PageStep

\* The page is loaded again: a new instance with the same options.
PageReload ==
  /\ measCfg' = measCfg
  /\ stats' = IF measCfg.storeId /\ localStorage # <<>> THEN localStorage[1].stats ELSE <<>>
  /\ statsSum' = IF measCfg.storeId /\ localStorage # <<>> THEN localStorage[1].statsSum ELSE Num(0)
  /\ statsCount' = IF measCfg.storeId /\ localStorage # <<>> THEN localStorage[1].statsCount ELSE 0
  /\ UNCHANGED <<localStorage, pageNow, collectorVars, exitVars, chunkVars>>

PageAdvance ==
  /\ pageNow < PageStep * (MaxPageSteps + 1)
  /\ pageNow' = pageNow + PageStep
  /\ UNCHANGED <<measCfg, stats, statsSum, statsCount, localStorage, collectorVars, exitVars, chunkVars>>

\* clear()
clear ==
  /\ stats' = <<>>
  /\ statsSum' = Num(0)
  /\ statsCount' = 0
  /\ localStorage' = store(measCfg, <<>>, Num(0), 0)
  /\ UNCHANGED <<measCfg, pageNow, collectorVars, exitVars, chunkVars>>

\* The splice loops of purge(): the first k entries are removed and their
\* values and counts subtracted, one after the other.
RECURSIVE Spliced(_, _)
Spliced(m, k) ==
  IF k = 0 THEN m
  ELSE Spliced([stats |-> Tail(m.stats),
                statsSum |-> JsSub(m.statsSum, m.stats[1].value),
                statsCount |-> m.statsCount - m.stats[1].count], k - 1)

\* removeToIndex + 1: the number of leading entries older than ttl.
RECURSIVE Expired1(_, _, _)
Expired1(st, c, t) ==
  IF st # <<>> /\ t - st[1].timestamp > c.ttl * MsPerSecond
    THEN 1 + Expired1(Tail(st), c, t)
    ELSE 0

\* purge() without its store(): the instance after the ttl part and the
\* maxItems part.
purged(c, m, t) ==
  LET a == IF c.ttl > 0 THEN Spliced(m, Expired1(m.stats, c, t)) ELSE m
  IN  IF c.maxItems > 0 /\ Len(a.stats) > c.maxItems
        THEN Spliced(a, Len(a.stats) - c.maxItems)
        ELSE a

\* purge() on the instance m: store() runs when entries were removed.
Purge(m) ==
  LET r == purged(measCfg, m, pageNow)
  IN  /\ stats' = r.stats
      /\ statsSum' = r.statsSum
      /\ statsCount' = r.statsCount
      /\ localStorage' = IF Len(r.stats) < Len(m.stats)
                            THEN store(measCfg, r.stats, r.statsSum, r.statsCount)
                            ELSE localStorage

\* purge()
purge ==
  /\ Purge([stats |-> stats, statsSum |-> statsSum, statsCount |-> statsCount])
  /\ UNCHANGED <<measCfg, pageNow, collectorVars, exitVars, chunkVars>>

\* mean(): purge(), then statsSum / statsCount is returned.
mean ==
  /\ Purge([stats |-> stats, statsSum |-> statsSum, statsCount |-> statsCount])
  /\ UNCHANGED <<measCfg, pageNow, collectorVars, exitVars, chunkVars>>

\* push(timestamp, value) with the timestamp Date.now().
push(value) ==
  /\ statsCount < MaxCount
  /\ LET n == Len(stats)
         merge == n > 0 /\ pageNow - stats[n].timestamp < secondsPerSample * MsPerSecond
         st == IF merge
                 THEN [stats EXCEPT ![n] = [timestamp |-> @.timestamp,
                                            value |-> JsAdd(@.value, value),
                                            count |-> @.count + 1]]
                 ELSE Append(stats, [timestamp |-> pageNow, value |-> value, count |-> 1])
     IN  Purge([stats |-> st, statsSum |-> JsAdd(statsSum, value), statsCount |-> statsCount + 1])
  /\ UNCHANGED <<measCfg, pageNow, collectorVars, exitVars, chunkVars>>

UtilsLoaded == ExitHandlersLoaded /\ ChunkedIdle /\ PageIdle

\* The next entry a Set iterator standing at entry pos visits: deleted
\* entries are passed over, entries added meanwhile are at the end (0: none).
NextEntry(entries, pos) ==
  LET later == {i \in DOMAIN entries : i > pos /\ entries[i] # 0}
  IN  IF later = {} THEN 0 ELSE CHOOSE i \in later : \A k \in later : i <= k

\* registerExitHandler(exitHandler): Set.add.
registerExitHandler(h) ==
  /\ h \notin Range(exitHandlers)
  /\ Len(exitHandlers) < MaxExitEntries
  /\ exitHandlers' = Append(exitHandlers, h)
  /\ UNCHANGED <<runExitHandlersPromise, exitRuns, exitCalls, exitInvoked, exitThrew>>
  /\ UNCHANGED <<collectorVars, chunkVars, measVars>>

\* unregisterExitHandler(exitHandler): Set.delete. An iterator in progress
\* keeps its place among the entries.
unregisterExitHandler(h) ==
  /\ h \in Range(exitHandlers)
  /\ exitHandlers' = IF exitRuns = <<>>
                       THEN SelectSeq(exitHandlers, LAMBDA e : e # h)
                       ELSE [i \in DOMAIN exitHandlers |-> IF exitHandlers[i] = h THEN 0 ELSE exitHandlers[i]]
  /\ UNCHANGED <<runExitHandlersPromise, exitRuns, exitCalls, exitInvoked, exitThrew>>
  /\ UNCHANGED <<collectorVars, chunkVars, measVars>>

\* `if (!runExitHandlersPromise)`
ExitRunStarted(promise) == promise # "null"

\* One runExitHandlers() call, r its place in exitRuns, goes on from entry
\* pos: it invokes the handler of the next entry and awaits it, or, past the
\* last entry, clears the Set and its promise resolves.
runExitHandlers(r, pos) ==
  LET n == NextEntry(exitHandlers, pos)
  IN  IF n = 0
        THEN /\ exitHandlers' = <<>>
             /\ exitRuns' = [i \in 1..(Len(exitRuns) - (IF r <= Len(exitRuns) THEN 1 ELSE 0)) |->
                               IF i < r THEN exitRuns[i] ELSE exitRuns[i + 1]]
             /\ runExitHandlersPromise' = "resolved"
             /\ UNCHANGED exitInvoked
        ELSE /\ exitRuns' = [i \in 1..Max2(r, Len(exitRuns)) |-> IF i = r THEN n ELSE exitRuns[i]]
             /\ exitInvoked' = [exitInvoked EXCEPT ![exitHandlers[n]] = @ + 1]
             /\ runExitHandlersPromise' = "pending"
             /\ UNCHANGED exitHandlers

\* runExitHandlersNow(signal), up to `await runExitHandlersPromise`: the
\* first call starts runExitHandlers(), which invokes the first handler
\* before it is suspended; a later call awaits the promise of the first.
runExitHandlersNow ==
  /\ exitCalls < MaxExitCalls
  /\ exitCalls' = exitCalls + 1
  /\ IF ExitRunStarted(runExitHandlersPromise)
       THEN UNCHANGED <<exitHandlers, runExitHandlersPromise, exitRuns, exitInvoked>>
       ELSE runExitHandlers(Len(exitRuns) + 1, 0)
  /\ UNCHANGED exitThrew
  /\ UNCHANGED <<collectorVars, chunkVars, measVars>>

\* The handler that the runExitHandlers() call r awaits settles: fulfilled
\* (ok), or it threw or rejected and the catch block logs the error; the
\* loop goes on either way.
ExitHandlerSettles(r, ok) ==
  /\ r \in DOMAIN exitRuns
  /\ exitThrew' = IF ok \/ exitRuns[r] \notin DOMAIN exitHandlers \/ exitHandlers[exitRuns[r]] = 0
                    THEN exitThrew ELSE exitThrew \cup {exitHandlers[exitRuns[r]]}
  /\ runExitHandlers(r, exitRuns[r])
  /\ UNCHANGED exitCalls
  /\ UNCHANGED <<collectorVars, chunkVars, measVars>>

\* ---------------------------------------------------- Stats specifications
SchedulersConstructed(interval) ==
  /\ now = 1
  /\ sched = [s \in SchedIds |-> NewScheduler(interval)]
  /\ timers = {}
  /\ inflight = {}
  /\ starts = [s \in SchedIds |-> 0]
  /\ onTime = [s \in SchedIds |-> TRUE]
  /\ prevStart = [s \in SchedIds |-> 0]
  /\ gap = [s \in SchedIds |-> -1]
  /\ lastSettle = [s \in SchedIds |-> [ok |-> TRUE, dur |-> -1]]

\* The collector at work: a Stats instance without push gateway that is
\* started and not stopped, while sessions come and go, remote collectors push
\* their entries and the session pulls resolve or reject.
Init ==
  /\ SchedulersConstructed(StatsInterval)
  /\ UtilsLoaded
  /\ cfg \in [gateway : {FALSE}, pushStats : BOOLEAN]
  /\ StatsConstructed

Next ==
  \/ StatsAdvance
  \/ StatsStart
  \/ AddSession
  \/ \E id \in SessionIds : RemoveSession(id)
  \/ \E id \in ExternalIds, x \in ExternalStatsSamples : addExternalCollectedStats(id, x)
  \/ \E t \in timers : StatsTimerFire(t)
  \/ \E i \in inflight, x \in SessionStatsSamples : PullResolve(i, x)
  \/ \E i \in inflight : PullReject(i)
  \/ \E i \in inflight, ok \in BOOLEAN : PushSettle(i, ok)
  \/ \E i \in inflight, ok \in BOOLEAN : ExportSettle(i, ok)

Spec == Init /\ [][Next]_vars

\* The life cycle of the collector: start() and stop() in any order, with or
\* without a push gateway, while sessions are added and every pull resolves.
LifeSessionStats == <<[name |-> "cpu", obj |-> ObjNum(Num(1))]>>

LifeInit ==
  /\ SchedulersConstructed(StatsInterval)
  /\ UtilsLoaded
  /\ cfg \in [gateway : BOOLEAN, pushStats : {FALSE}]
  /\ StatsConstructed

LifeNext ==
  \/ LifeAdvance
  \/ StatsStart
  \/ StatsStartResume
  \/ StatsStop
  \/ StatsStopSessionsDone
  \/ StatsStopGatewayDone
  \/ LifeAddSession
  \/ \E t \in timers : StatsTimerFire(t)
  \/ \E i \in inflight : PullResolve(i, LifeSessionStats)
  \/ \E i \in inflight : ExportSettle(i, TRUE)

LifeSpec == LifeInit /\ [][LifeNext]_vars

\* A collector whose sessions may stop answering.  Every await of a tick that
\* can settle does settle (weak fairness of the tick's steps); the pull of a
\* hung session cannot.
TickStep ==
  \/ \E i \in inflight : PullResolve(i, LifeSessionStats)
  \/ \E i \in inflight : ExportSettle(i, TRUE)

HangInit ==
  /\ SchedulersConstructed(StatsInterval)
  /\ UtilsLoaded
  /\ cfg = [gateway |-> FALSE, pushStats |-> FALSE]
  /\ StatsConstructed

HangNext ==
  \/ StatsAdvance
  \/ StatsStart
  \/ AddSession
  \/ \E id \in SessionIds : SessionHangs(id)
  \/ \E t \in timers : StatsTimerFire(t)
  \/ TickStep

HangSpec == HangInit /\ [][HangNext]_vars /\ WF_vars(TickStep)

\* ------------------------------------------------ the alert specification
\* The clock of the alert specification stops MaxAlertSeconds after the start.
MaxAlertSeconds == 3
\* Number of collectStats() ticks in a run of the alert specification.
MaxChecks == 3

\* The summaries of `cpu` a tick ends with.
AlertSamples == {<<>>, <<Num(1)>>, <<Num(4)>>, <<Num(2), Num(6)>>}

\* The alert rules of the runs, as json5.parse() returns them.
AlertRuleSamples ==
  {<<[key |-> "cpu",
      rule |-> <<TagsEntry({"perf"}),
                 CheckEntry("max", <<[NoRuleValue EXCEPT !.lt = {4}]>>),
                 CheckEntry("length", <<[NoRuleValue EXCEPT !.eq = {0}]>>)>>],
     [key |-> "foo", rule |-> <<CheckEntry("max", <<[NoRuleValue EXCEPT !.lt = {4}]>>)>>]>>,
   <<[key |-> "cpu",
      rule |-> <<CheckEntry("max", <<[NoRuleValue EXCEPT !.lt = {5}, !.lte = {2}]>>),
                 CheckEntry("min", <<[NoRuleValue EXCEPT !.gt = {1}, !.gte = {4}]>>)>>]>>,
   <<[key |-> "cpu",
      rule |-> <<CheckEntry("min", <<[NoRuleValue EXCEPT !.gt = {4}]>>),
                 CheckEntry("sum", <<[NoRuleValue EXCEPT !.gte = {1}, !.lte = {2}]>>)>>]>>,
   <<[key |-> "cpu",
      rule |-> <<TagsEntry({"perf", "load"}),
                 CheckEntry("max", <<[NoRuleValue EXCEPT !.gt = {2}, !.after = {2}],
                                     [NoRuleValue EXCEPT !.lt = {4}, !.before = {1}]>>)>>]>>,
   <<[key |-> "cpu",
      rule |-> <<CheckEntry("max", <<[NoRuleValue EXCEPT !.lt = {4}, !.skip_lt = {1}],
                                     [NoRuleValue EXCEPT !.gte = {4}, !.skip_gte = {5}]>>),
                 CheckEntry("min", <<[NoRuleValue EXCEPT !.gt = {1}, !.skip_lte = {0}],
                                     [NoRuleValue EXCEPT !.lte = {2}, !.skip_gt = {2}]>>)>>]>>,
   <<[key |-> "cpu",
      rule |-> <<CheckEntry("min", <<[NoRuleValue EXCEPT !.gte = {4}]>>),
                 FailPercentileEntry(50),
                 CheckEntry("max", <<[NoRuleValue EXCEPT !.lt = {4}]>>)>>]>>,
   <<[key |-> "cpu",
      rule |-> <<CheckEntry("min", <<[NoRuleValue EXCEPT !.lt = {-2}]>>)>>]>>,
   <<[key |-> "cpu",
      rule |-> <<CheckEntry("max", <<[NoRuleValue EXCEPT !.lt = {4}, !.skip_lt = {1}],
                                     [NoRuleValue EXCEPT !.lt = {4}, !.skip_gte = {5}]>>)>>]>>,
   <<[key |-> "cpu",
      rule |-> <<CheckEntry("max", <<[NoRuleValue EXCEPT !.gt = {2}, !.after = {1}],
                                     [NoRuleValue EXCEPT !.lt = {4}, !.after = {1}]>>)>>]>>}

\* The clock advances by one second.
AlertAdvance ==
  /\ now + MsPerSecond <= startTimestamp + MaxAlertSeconds * MsPerSecond
  /\ now' = now + MsPerSecond
  /\ UNCHANGED <<sched, timers, inflight, histVars, statsVars>>

\* A collectStats() call that runs to its end with no other step in between:
\* the summary of `cpu` holds `values` when checkAlertRules() is called.
AlertTick(values) ==
  /\ lastCheck.n < MaxChecks
  /\ collectedStats' = [collectedStats EXCEPT !["cpu"].all = values]
  /\ LET r == checkAlertRules(alertRules, statsRunning, collectedStats', alertRulesReport, now)
     IN /\ alertRulesReport' = r.report
        /\ lastCheck' = [n |-> lastCheck.n + 1, now |-> now, recorded |-> r.recorded]
  /\ UNCHANGED <<schedVars, histVars, cfg, utilVars, alertRules, statsRunning, scheduler, nsched, gateway,
                 startPend, stopPend, nextSessionId, sessions, hung, stopListeners, external, lastTick, lastCall>>

\* A collector with alert rules: it is started, the clock advances and every
\* tick ends with one of the sample summaries.
AlertInit ==
  /\ SchedulersConstructed(StatsInterval)
  /\ UtilsLoaded
  /\ cfg = [gateway |-> FALSE, pushStats |-> FALSE]
  /\ \E rules \in AlertRuleSamples : StatsConstructedWith(rules)

AlertNext ==
  \/ AlertAdvance
  \/ StatsStart
  \/ \E values \in AlertSamples : AlertTick(values)

AlertSpec == AlertInit /\ [][AlertNext]_vars

\* The life cycle of a collector with an alert rule and no push gateway:
\* start() and stop() in any order while a session is added, the Scheduler
\* fires and the pulls resolve with a value that passes the rule or fails it.
AlertLifeRules ==
  <<[key |-> "cpu", rule |-> <<CheckEntry("max", <<[NoRuleValue EXCEPT !.lt = {4}]>>)>>]>>

AlertLifeSessionStats ==
  { <<[name |-> "cpu", obj |-> ObjNum(Num(1))]>>,
    <<[name |-> "cpu", obj |-> ObjNum(Num(4))]>> }

AlertLifeInit ==
  /\ SchedulersConstructed(StatsInterval)
  /\ UtilsLoaded
  /\ cfg = [gateway |-> FALSE, pushStats |-> FALSE]
  /\ StatsConstructedWith(AlertLifeRules)

AlertLifeNext ==
  \/ LifeAdvance
  \/ StatsStart
  \/ StatsStop
  \/ StatsStopSessionsDone
  \/ LifeAddSession
  \/ \E t \in timers : StatsTimerFire(t)
  \/ \E i \in inflight, x \in AlertLifeSessionStats : PullResolve(i, x)
  \/ \E i \in inflight : ExportSettle(i, TRUE)

AlertLifeSpec == AlertLifeInit /\ [][AlertLifeNext]_vars

\* The monitored sessions of a collector: sessions are created and added,
\* added again, removed and stopped while the collector is started and
\* stopped.
SessionsInit ==
  /\ SchedulersConstructed(StatsInterval)
  /\ UtilsLoaded
  /\ cfg = [gateway |-> FALSE, pushStats |-> FALSE]
  /\ StatsConstructed

SessionsNext ==
  \/ StatsStart
  \/ StatsStop
  \/ StatsStopSessionsDone
  \/ AddSession
  \/ \E id \in SessionIds : addSession(id)
  \/ \E id \in SessionIds : RemoveSession(id)
  \/ \E id \in SessionIds : SessionStopped(id)

SessionsSpec == SessionsInit /\ [][SessionsNext]_vars

\* The exit handlers of the process: callbacks are registered and
\* unregistered, before and while the handlers run, and signals call
\* runExitHandlersNow.
ExitInit ==
  /\ SchedulersConstructed(StatsInterval)
  /\ UtilsLoaded
  /\ cfg = [gateway |-> FALSE, pushStats |-> FALSE]
  /\ StatsConstructed

ExitNext ==
  \/ \E h \in ExitHandlerIds : registerExitHandler(h)
  \/ \E h \in ExitHandlerIds : unregisterExitHandler(h)
  \/ runExitHandlersNow
  \/ \E r \in DOMAIN exitRuns : ExitHandlerSettles(r, TRUE)
  \/ \E r \in DOMAIN exitRuns : ExitHandlerSettles(r, FALSE)

ExitSpec == ExitInit /\ [][ExitNext]_vars

\* One chunkedPromiseAll() call whose invocations of f throw, fulfil or
\* reject in any order. The continuation of the awaited Promise.allSettled
\* is a microtask: it runs.
ChunkInit ==
  /\ SchedulersConstructed(StatsInterval)
  /\ UtilsLoaded
  /\ cfg = [gateway |-> FALSE, pushStats |-> FALSE]
  /\ StatsConstructed

ChunkNext ==
  \/ \E n \in 0..MaxItems, size \in 1..MaxChunkSize, throwers \in SUBSET (0..(MaxItems - 1)) :
       chunkedPromiseAll(n, size, throwers)
  \/ \E i \in chunkFlight, how \in {"value", "undefined", "rejected"} : FSettles(i, how)
  \/ \E throwers \in SUBSET (0..(MaxItems - 1)) : ChunkAwaited(throwers)

\* A MeasuredStats instance of a page, with or without ttl, maxItems and
\* storeId, on which clear, purge, push and mean are called as the clock
\* advances and the page is loaded again.
MeasInit ==
  /\ SchedulersConstructed(StatsInterval)
  /\ ExitHandlersLoaded
  /\ ChunkedIdle
  /\ cfg = [gateway |-> FALSE, pushStats |-> FALSE]
  /\ StatsConstructed
  /\ \E c \in [ttl : {0, TtlCfg}, maxItems : {0, MaxItemsCfg}, storeId : BOOLEAN] :
       MeasuredStatsNew(c, <<>>)
  /\ localStorage = <<>>
  /\ pageNow = PageStep

MeasNext ==
  \/ PageAdvance
  \/ PageReload
  \/ clear
  \/ purge
  \/ mean
  \/ \E value \in MeasValues : push(value)

MeasSpec == MeasInit /\ [][MeasNext]_vars

ChunkSpec ==
  ChunkInit /\ [][ChunkNext]_vars /\ WF_vars(\E throwers \in SUBSET (0..(MaxItems - 1)) : ChunkAwaited(throwers))

\* ------------------------------------------------- Scheduler specification
SchedInit ==
  /\ SchedulersConstructed(Interval)
  /\ UtilsLoaded
  /\ cfg = [gateway |-> FALSE, pushStats |-> FALSE]
  /\ StatsConstructed

SchedNext ==
  \/ Advance
  \/ SchedStart(1)
  \/ SchedStop(1)
  \/ \E t \in timers : TimerFire(t)
  \/ \E i \in inflight : CallbackSettle(i, TRUE)
  \/ \E i \in inflight : CallbackSettle(i, FALSE)

SchedSpec == SchedInit /\ [][SchedNext]_vars

\* ---------------------------------------------------- Scheduler properties
Abs(x) == IF x >= 0 THEN x ELSE -x

\* C1: for a Scheduler started once, no two callback invocations are in
\* flight at the same time, also when the callback outlasts the interval.
C1_NoOverlap ==
  \A s \in SchedIds : starts[s] <= 1 => Cardinality(InflightOf(s, inflight)) <= 1

\* C1 witness: a callback of a Scheduler started once is still in flight after
\* more than one interval, and it is not the first invocation.
C1_Witness ==
  \E i \in inflight :
    /\ starts[i.s] = 1
    /\ now - i.started > Interval
    /\ lastSettle[i.s].dur >= 0

\* C2 (as claimed): after any sequence of start()/stop() calls the Scheduler
\* has at most one pending timer and at most one chain of ticks (a pending
\* timer or an in-flight callback that will schedule the next one).
C2_OneChain ==
  \A s \in SchedIds :
    Cardinality(TimersOf(s, timers)) + Cardinality(InflightOf(s, inflight)) <= 1

\* A callback invocation of s settles in this step.
SettlesIn(s) ==
  /\ InflightOf(s, inflight') \subseteq InflightOf(s, inflight)
  /\ InflightOf(s, inflight') # InflightOf(s, inflight)

\* A callback invocation of s begins in this step.
BeginsIn(s) == ~(InflightOf(s, inflight') \subseteq InflightOf(s, inflight))

\* C3: while the Scheduler is running, every callback completion (resolved or
\* rejected, short or longer than the interval) schedules exactly one next
\* invocation, and a running Scheduler always has a tick pending or in flight.
C3_KeepsTicking ==
  /\ [][\A s \in SchedIds :
          (SettlesIn(s) /\ sched[s].running) =>
            Cardinality(TimersOf(s, timers')) = Cardinality(TimersOf(s, timers)) + 1]_vars
  /\ [](\A s \in SchedIds :
          sched[s].running => TimersOf(s, timers) \cup InflightOf(s, inflight) # {})

\* C3 witness: the latest callback rejected after running longer than the
\* interval, and the Scheduler, still running, has its next timer pending.
C3_Witness ==
  \E s \in SchedIds :
    /\ sched[s].running
    /\ ~lastSettle[s].ok
    /\ lastSettle[s].dur > Interval
    /\ TimersOf(s, timers) # {}
    /\ InflightOf(s, inflight) = {}

\* C4 (as claimed): once stop() has returned and start() is not called again,
\* no new callback invocation begins.
C4_NoTickAfterStop ==
  [][\A s \in SchedIds :
       (starts[s] > 0 /\ ~sched[s].running /\ ~sched'[s].running) => ~BeginsIn(s)]_vars

\* C5: with instantaneous callbacks and timers that fire exactly on time, the
\* accumulated errorSum and the deviation of the gap between consecutive
\* ticks from the interval never exceed one interval (Scheduler started once).
C5_DriftBound ==
  \A s \in SchedIds :
    (onTime[s] /\ starts[s] = 1) =>
      /\ Abs(sched[s].errorSum) <= Interval
      /\ gap[s] # -1 => Abs(gap[s] - Interval) <= Interval

\* C5 witness: several on-time ticks have happened.
C5_Witness ==
  \E s \in SchedIds :
    /\ onTime[s]
    /\ starts[s] = 1
    /\ gap[s] # -1
    /\ lastSettle[s].dur = 0
    /\ now >= 1 + 3 * Interval

\* C21 (as claimed): the accumulated drift errorSum of a Scheduler stays
\* within [-interval, +interval], so the delay interval - errorSum / 2 handed
\* to the timer lies between interval / 2 and 3 * interval / 2.
C21_ErrorSumBounded ==
  \A s \in SchedIds :
    /\ -sched[s].interval <= sched[s].errorSum
    /\ sched[s].errorSum <= sched[s].interval
    /\ sched[s].interval <= 2 * sched[s].interval - sched[s].errorSum
    /\ 2 * sched[s].interval - sched[s].errorSum <= 3 * sched[s].interval

\* ------------------------------------------------------- Stats properties
\* The program state of Stats and its Schedulers (everything but the clock
\* and the history variables).
progVars ==
  <<sched, timers, inflight, cfg, statsRunning, scheduler, nsched, gateway, startPend,
    stopPend, nextSessionId, sessions, external, collectedStats, alertRules, alertRulesReport>>

\* C6: start() on a running collector and stop() on a collector that is not
\* running change nothing: no Scheduler is constructed, no state is touched.
C6_DoubleStartStopNoop ==
  [][/\ (lastCall' # lastCall /\ lastCall'.op = "start" /\ statsRunning)
          => UNCHANGED progVars
     /\ (lastCall' # lastCall /\ lastCall'.op = "stop" /\ ~statsRunning)
          => UNCHANGED progVars]_vars

\* C6 witness: start() has just been called on a collector that was running
\* and whose Scheduler has a tick pending.
C6_Witness ==
  /\ lastCall = [op |-> "start", wasRunning |-> TRUE]
  /\ statsRunning
  /\ scheduler # 0
  /\ nsched = 1

\* C7 (as claimed): when a session's pull fails in a tick, the sessions after
\* it are still collected and the tick still merges the external entries,
\* emits the snapshot, evaluates the alert rules and runs the exporters.
C7_PullFailureIsolated ==
  lastTick.failed # 0 =>
    /\ lastTick.missed = {}
    /\ lastTick.merged
    /\ lastTick.emitted
    /\ lastTick.alerts
    /\ lastTick.exported

\* C8 (as claimed): a tick in flight always completes, so that the Scheduler
\* starts the next one, also when the pull of a session never settles.
C8_HungPullDoesNotStallTick ==
  \A s \in SchedIds : (InflightOf(s, inflight) # {}) ~> (InflightOf(s, inflight) = {})

Summaries(c) ==
  {c.all} \cup {c.byHost[h] : h \in DOMAIN c.byHost}
          \cup {c.byCodec[k] : k \in DOMAIN c.byCodec}

\* A tick found no session and no external entry in this step: its timer
\* fired and collectStats returned at once.
EmptyTickIn ==
  /\ \E t \in timers : t \notin timers'
  /\ inflight' = inflight
  /\ statsRunning
  /\ lastTick'.kind = "skipped"

\* C9 (as claimed): a tick that finds no session and no external entry leaves
\* every all/byHost/byCodec summary empty.
C9_EmptyTickEmptySummaries ==
  [][EmptyTickIn =>
       \A name \in Metrics : \A d \in Summaries(collectedStats'[name]) : d = <<>>]_vars

\* C10 (as claimed): no summary ever holds a non-finite value.
C10_OnlyFiniteSamples ==
  \A name \in Metrics : \A d \in Summaries(collectedStats[name]) :
    \A k \in 1..Len(d) : isFinite(d[k])

\* Position of an invocation of collectStats after its loop over the sessions.
PastSessions(i) == i.pc \in {"push", "export"}

SameInvocation(i, j) == i.s = j.s /\ i.tid = j.tid /\ i.started = j.started

\* The invocations that go through "Add external collected stats" in this step.
MergingIn == {j \in inflight' : PastSessions(j) /\
                \A i \in inflight : SameInvocation(i, j) => ~PastSessions(i)}

\* The number of samples of a summary that equal v.
CountOf(d, v) == Cardinality({k \in 1..Len(d) : d[k] = v})

\* The number of samples in the "all" summaries that came from an external
\* entry: the external samples push 3 to rtt and NaN to cpu, which no session
\* sample contributes.
ExternalCount(cs) == CountOf(cs["rtt"].all, Num(3)) + CountOf(cs["cpu"].all, NaN)

LiveAt(entries, tickNow) ==
  SelectSeq(entries, LAMBDA e : tickNow - e.addedTime <= rtcStatsTimeout)

C12_ExporterFailureNotFatal ==
  [][\A s \in SchedIds :
       (SettlesIn(s) /\ lastTick'.exportFailed) =>
         /\ lastTick'.alerts
         /\ sched[s].running =>
              Cardinality(TimersOf(s, timers')) = Cardinality(TimersOf(s, timers)) + 1]_vars

\* C12 witness: the latest tick had a failed export, evaluated the alert rules,
\* and the timer of the next tick is pending.
C12_Witness ==
  /\ lastTick.kind = "full"
  /\ lastTick.exportFailed
  /\ lastTick.alerts
  /\ inflight = {}
  /\ scheduler # 0
  /\ TimersOf(scheduler, timers) # {}


\* ------------------------------------------------------- alert properties
\* Every rule value of the configured rules, with its key and check key.
Variants(rules) ==
  UNION {UNION {{[key |-> rules[k].key, ruleKey |-> rules[k].rule[e].k,
                  ruleValue |-> rules[k].rule[e].values[j]] :
                   j \in 1..Len(rules[k].rule[e].values)} :
                e \in 1..Len(rules[k].rule)} :
         k \in 1..Len(rules)}

ReportId(v) == [key |-> v.key, desc |-> getAlertRuleDesc(v.ruleKey, v.ruleValue)]

\* The report of a rule value is the same before and after the step, or
\* there is none before and after.
SameReport(id) ==
  IF id \in DOMAIN alertRulesReport
    THEN id \in DOMAIN alertRulesReport' /\ alertRulesReport'[id] = alertRulesReport[id]
    ELSE id \notin DOMAIN alertRulesReport'

\* A checkAlertRules() call takes place in the step.
ChecksIn == lastCheck'.n = lastCheck.n + 1

\* C13: a rule value with $after = A (resp. $before = B) records nothing on a
\* tick whose elapsed seconds since the start are < A (resp. > B): no report
\* is created and its report, if any, is left as it is, whatever the value.
C13_WindowRecordsNothing ==
  [][ChecksIn =>
       \A v \in Variants(alertRules) :
         (\/ \E a \in v.ruleValue.after : now - startTimestamp < MsPerSecond * a
          \/ \E b \in v.ruleValue.before : now - startTimestamp > MsPerSecond * b)
           => SameReport(ReportId(v))]_vars

\* A running collector ticked one second after the start with max = 1, which
\* violates `$gt 2 $after 2`, and no report exists for that rule value, while
\* the `$before 1` value of the same check key, still in its window, has one.
C13_Witness ==
  /\ statsRunning
  /\ lastCheck.n > 0
  /\ lastCheck.now = now
  /\ now = startTimestamp + MsPerSecond
  /\ collectedStats["cpu"].all = <<Num(1)>>
  /\ \E v \in Variants(alertRules) :
       /\ v.ruleValue.after = {2}
       /\ v.ruleValue.gt = {2}
       /\ ReportId(v) \notin DOMAIN alertRulesReport
  /\ \E v \in Variants(alertRules) :
       /\ v.ruleValue.before = {1}
       /\ ReportId(v) \in DOMAIN alertRulesReport


\* The check value of a rule value after the step's tick.
CheckValueOf(v) == CheckValue(formatStats(collectedStats'[v.key].all), v.ruleKey).n

\* The evaluations of the rule value v that the step's tick recorded.
RecordedFor(v) ==
  {k \in 1..Len(lastCheck'.recorded) :
     /\ lastCheck'.recorded[k].key = v.key
     /\ lastCheck'.recorded[k].ruleKey = v.ruleKey
     /\ lastCheck'.recorded[k].ruleValue = v.ruleValue}

\* No other rule value of the rules has the description of v.
Alone(v) == \A w \in Variants(alertRules) : ReportId(w) = ReportId(v) => w = v

\* C14: when a $skip_lt / $skip_lte / $skip_gt / $skip_gte predicate of a
\* rule value matches the check value of the tick, the evaluation is skipped:
\* nothing is recorded for the rule value, its report is left as it is and
\* none is created.
C14_SkipRecordsNothing ==
  [][ChecksIn =>
       \A v \in Variants(alertRules) :
         (/\ v.key \in DOMAIN collectedStats
          /\ \/ \E x \in v.ruleValue.skip_lt : CheckValueOf(v) < x
             \/ \E x \in v.ruleValue.skip_lte : CheckValueOf(v) <= x
             \/ \E x \in v.ruleValue.skip_gt : CheckValueOf(v) > x
             \/ \E x \in v.ruleValue.skip_gte : CheckValueOf(v) >= x)
           => /\ RecordedFor(v) = {}
              /\ Alone(v) => SameReport(ReportId(v))]_vars

\* Two ticks of a running collector under `min: {$gt 1, $skip_lte 0}`: the
\* latest one had no samples (min = 0, which is not > 1) and was skipped, the
\* report still holds the one passed evaluation of the other tick.
C14_Witness ==
  /\ statsRunning
  /\ lastCheck.n = 2
  /\ collectedStats["cpu"].all = <<>>
  /\ \E v \in Variants(alertRules) :
       /\ v.ruleKey = "min"
       /\ v.ruleValue.gt = {1}
       /\ v.ruleValue.skip_lte = {0}
       /\ ReportId(v) \in DOMAIN alertRulesReport
       /\ alertRulesReport[ReportId(v)].valueStats = <<4>>
       /\ alertRulesReport[ReportId(v)].totalFails = 0


\* The evaluations the latest tick recorded.
Recorded == Range(lastCheck.recorded)

\* The pass/fail rule as claimed: $eq alone when declared, otherwise every
\* declared bound counts.
FailsAsClaimed(ruleValue, v) ==
  IF ruleValue.eq # {}
    THEN \E t \in ruleValue.eq : v # t
    ELSE \/ \E t \in ruleValue.lt : v >= t
         \/ \E t \in ruleValue.lte : v > t
         \/ \E t \in ruleValue.gt : v <= t
         \/ \E t \in ruleValue.gte : v < t

\* C15 (as claimed): a recorded check failed iff its value differs from $eq
\* when $eq is declared, and otherwise iff it violates one of the declared
\* bounds $lt, $lte, $gt, $gte.
C15_EveryBoundCounts ==
  \A e \in Recorded : e.failed <=> FailsAsClaimed(e.ruleValue, e.checkValue)


\* The bounds of a rule value that the value v violates, as claimed.
ViolatedBounds(ruleValue, v) ==
  IF ruleValue.eq # {}
    THEN {t \in ruleValue.eq : v # t}
    ELSE {t \in ruleValue.lt : v >= t} \cup {t \in ruleValue.lte : v > t} \cup
         {t \in ruleValue.gt : v <= t} \cup {t \in ruleValue.gte : v < t}

\* a = 100 * min(1, |v - t| / t) for t # 0, a = 100 * min(1, |v|) for t = 0.
IsFailAmount(a, v, t) ==
  IF t = 0 THEN a = 100 * Min2(1, Abs(v))
  ELSE IF t > 0 /\ Abs(v - t) >= t THEN a = 100
  ELSE a * t = 100 * Abs(v - t)

\* The evaluation e is the only one the latest tick recorded in its report.
OnlyInReport(e) ==
  \A f \in Recorded : (f.key = e.key /\ getAlertRuleDesc(f.ruleKey, f.ruleValue) =
                                        getAlertRuleDesc(e.ruleKey, e.ruleValue)) => f = e

LastOf(d) == d[Len(d)]

\* C16: the failAmount recorded for a failed check is
\* 100 * min(1, |value - threshold| / threshold) for a non-zero threshold and
\* 100 * min(1, |value|) for a zero one, the threshold being a violated bound;
\* it is the amount pushed to the report's fail-amount distribution.
C16_FailAmount ==
  \A e \in Recorded :
    e.failed =>
      /\ \E t \in ViolatedBounds(e.ruleValue, e.checkValue) :
           IsFailAmount(e.failAmount, e.checkValue, t)
      /\ OnlyInReport(e) =>
           LastOf(alertRulesReport[[key |-> e.key,
                                    desc |-> getAlertRuleDesc(e.ruleKey, e.ruleValue)]].failAmountStats)
             = e.failAmount

\* A tick with max = 6 and length = 2: max against `$lt 4` fails by 50 (as
\* 150 against 100), length against `$eq 0` fails by 100.
C16_Witness ==
  /\ \E e \in Recorded :
       e.ruleValue.lt = {4} /\ e.checkValue = 6 /\ e.failed /\ e.failAmount = 50
  /\ \E e \in Recorded :
       e.ruleValue.eq = {0} /\ e.checkValue = 2 /\ e.failed /\ e.failAmount = 100


\* The rule value a description names (its comparison operators).
RuleValueOf(desc) ==
  [NoRuleValue EXCEPT !.eq = desc.eq, !.gt = desc.gt, !.gte = desc.gte, !.lt = desc.lt,
                      !.lte = desc.lte]

\* The report of id before the step, the initial one when there is none.
ReportBefore(id) == IF id \in DOMAIN alertRulesReport THEN alertRulesReport[id] ELSE NewReportValue

\* The evaluation e is the only one the step's tick recorded in its report.
OnlyInReportIn(e) ==
  \A k \in 1..Len(lastCheck'.recorded) :
    LET f == lastCheck'.recorded[k]
    IN (f.key = e.key /\ getAlertRuleDesc(f.ruleKey, f.ruleValue) =
                             getAlertRuleDesc(e.ruleKey, e.ruleValue)) => f = e

\* C17: totalFails counts the failed evaluations of a rule; totalFailsTime
\* grows, at a failed evaluation whose preceding evaluation also failed, by
\* the time between the two, and by nothing otherwise; lastFailed is the time
\* of the evaluation when it failed and 0 when it passed.
C17_FailsContinuity ==
  /\ [][ChecksIn =>
         \A k \in 1..Len(lastCheck'.recorded) :
           LET e == lastCheck'.recorded[k]
               id == [key |-> e.key, desc |-> getAlertRuleDesc(e.ruleKey, e.ruleValue)]
               old == ReportBefore(id)
               new == alertRulesReport'[id]
           IN OnlyInReportIn(e) =>
                /\ new.totalFails = old.totalFails + (IF e.failed THEN 1 ELSE 0)
                /\ new.totalFailsTime =
                     old.totalFailsTime +
                       (IF e.failed /\ old.lastFailed # 0 THEN now - old.lastFailed ELSE 0)
                /\ new.lastFailed = (IF e.failed THEN now ELSE 0)]_vars
  /\ [](\A id \in DOMAIN alertRulesReport :
          LET r == alertRulesReport[id]
          IN /\ r.totalFails =
                  Cardinality({k \in 1..Len(r.valueStats) :
                                 CheckOutcome(RuleValueOf(id.desc), r.valueStats[k]).failed})
             /\ r.totalFails <= 1 => r.totalFailsTime = 0
             /\ r.totalFailsTime <= now - startTimestamp)

\* `max: {$lt 4}` evaluated at three ticks one second apart with max = 6,
\* all failing: totalFails = 3 and totalFailsTime = 2 s.
C17_Witness ==
  \E id \in DOMAIN alertRulesReport :
    /\ id.desc.lt = {4}
    /\ id.desc.before = {}
    /\ alertRulesReport[id].valueStats = <<6, 6, 6>>
    /\ alertRulesReport[id].totalFails = 3
    /\ alertRulesReport[id].totalFailsTime = 2 * MsPerSecond
    /\ now = startTimestamp + 2 * MsPerSecond

\* The same rule with the tick in the middle passing (max = 1): totalFails = 2
\* and totalFailsTime = 0.
C17_BrokenChain ==
  \E id \in DOMAIN alertRulesReport :
    /\ id.desc.lt = {4}
    /\ alertRulesReport[id].valueStats = <<6, 1, 6>>
    /\ alertRulesReport[id].totalFails = 2
    /\ alertRulesReport[id].totalFailsTime = 0
    /\ now = startTimestamp + 2 * MsPerSecond


\* 100 times the p-th percentile of non-empty data by linear interpolation:
\* with the rank r = p / 100 * (n - 1), the value at floor(r) plus the
\* fraction of r times the step to the value at ceil(r).
LinearPercentile100(d, p) ==
  LET sd == SortedData(d)
      r100 == p * (Len(d) - 1)
      lo == r100 \div 100 + 1
      hi == (r100 + 99) \div 100 + 1
  IN 100 * sd[lo] + (r100 % 100) * (sd[hi] - sd[lo])

\* C18 (as claimed): the score of a tag is the engine-wide failPercentile-th
\* percentile, by linear interpolation, of the failAmountPercentile of the
\* reports of the rules that declare the tag (0 and 100 give 95 at the 95th
\* percentile), and 0 when none of them has failed.
C18_TagScoreLinear ==
  \A tag \in DOMAIN getAlertRulesTags(alertRules, alertRulesReport) :
    LET values == getAlertRulesTags(alertRules, alertRulesReport)[tag]
    IN /\ TagScore(alertRules, alertRulesReport, tag) =
            RoundRatio(LinearPercentile100(values, alertRulesFailPercentile), 100).n
       /\ (\A k \in 1..Len(values) : values[k] = 0)
            => TagScore(alertRules, alertRulesReport, tag) = 0


\* The failPercentile of a rule: the one it declares, else the engine-wide one.
FailPercentileOf(rule) ==
  LET declared == {k \in 1..Len(rule) : rule[k].k = "failPercentile"}
  IN IF declared = {} THEN alertRulesFailPercentile ELSE rule[CHOOSE k \in declared : TRUE].num

\* C19 (as claimed): the failAmountPercentile of a report is 0 whenever at
\* least failPercentile percent of its recorded checks passed, for any number
\* of recorded checks.
C19_PassesAtFailPercentile ==
  \A id \in DOMAIN alertRulesReport :
    LET r == alertRulesReport[id]
        checks == Len(r.failAmountStats)
    IN 100 * (checks - r.totalFails) >= FailPercentileOf(RuleOf(alertRules, id.key)) * checks
         => r.failAmountPercentile = 0


\* ----------------------------------------------------- summary properties
\* C20: the statistics reported for a summary with no samples (never pushed,
\* or emptied by the reset of a tick, also of a later tick) are all 0: length,
\* sum, mean, stddev, p5, p95, min and max, none NaN or undefined.
C20_EmptySummaryReportsZero ==
  \A name \in Metrics : \A d \in Summaries(collectedStats[name]) :
    d = <<>> =>
      \A field \in {"length", "sum", "mean", "stddev", "p5", "p95", "min", "max"} :
        /\ field \in DOMAIN formatStats(d)
        /\ formatStats(d)[field] = Num(0)

\* A tick is in flight after a full tick went through with a session present:
\* the summaries of cpu were reset twice and are empty.
C20_Witness ==
  /\ lastTick.kind = "full"
  /\ sessions # <<>>
  /\ \E i \in inflight : i.pc = "pull"
  /\ \A d \in Summaries(collectedStats["cpu"]) : d = <<>>


\* C22: the snapshot of a tick that is not skipped holds that tick's samples
\* only: when the tick has merged the external entries, the count of "all" of
\* every metric is the number of samples the sessions and the live external
\* entries contributed during the tick.
C22_SnapshotOfThisTick ==
  [][\A j \in MergingIn :
       \A name \in Metrics : Len(collectedStats'[name].all) = j.pushed[name]]_vars


\* C23 (as claimed): byParticipantAndTrack is cumulative: while the collector
\* runs, an entry recorded for a (participant, track) stays in it, the reset
\* of a later tick included, and keeps its value until it is reported again.
C23_ByParticipantAndTrackKept ==
  [][\A name \in Metrics :
       \A key \in DOMAIN collectedStats[name].byParticipantAndTrack :
         /\ key \in DOMAIN collectedStats'[name].byParticipantAndTrack
         /\ \/ collectedStats'[name].byParticipantAndTrack[key] =
                 collectedStats[name].byParticipantAndTrack[key]
            \/ \E i \in inflight : i.pc = "pull" /\ i \notin inflight']_vars

\* The invocations of collectStats that begin in this step, past the tests at
\* the top and the reset.
BeginningIn == {j \in inflight' : \A i \in inflight : ~SameInvocation(i, j)}

\* C23 (amended): byParticipantAndTrack is per-tick state: the reset at the
\* start of a tick that is not skipped replaces it by an empty record, so
\* after the step in which a tick begins it holds no entry of an earlier
\* tick, only what the external entries merged in that step carry.
C23_ByParticipantAndTrackReset ==
  [][BeginningIn # {} =>
       \A name \in Metrics :
         \A key \in DOMAIN collectedStats'[name].byParticipantAndTrack :
           \E e \in Range(external') :
             /\ name \in DOMAIN e.externalStats
             /\ key \in DOMAIN e.externalStats[name].byParticipantAndTrack]_vars

\* A tick has begun after an earlier tick recorded rtt of host h1 with its
\* (participant, track): the key of byHost is still there, the summaries are
\* empty and byParticipantAndTrack holds nothing.
C23_Witness ==
  /\ \E i \in inflight : i.pc = "pull" /\ i.idx = 1 /\ i.pushed = [name \in Metrics |-> 0]
  /\ "h1" \in DOMAIN collectedStats["rtt"].byHost
  /\ collectedStats["rtt"].byHost["h1"] = <<>>
  /\ collectedStats["rtt"].byParticipantAndTrack = EmptyMap

\* C24 (as claimed): a tick in which a session's metric map holds an undefined
\* entry still collects the later sessions, merges the external entries, emits
\* the snapshot, evaluates the alert rules and runs the exporters.
C24_UndefinedEntryIsolated ==
  lastTick.kind = "returned" =>
    /\ lastTick.missed = {}
    /\ lastTick.merged
    /\ lastTick.emitted
    /\ lastTick.alerts
    /\ lastTick.exported


\* A tick that merges keeps every live external entry and adds the values of
\* its raw arrays to the "all" summaries: with the samples of the sessions
\* they make up the count of "all".
MergeKeepsLive ==
  \A j \in MergingIn :
    /\ \A e \in Range(LiveAt(external, j.started)) : e \in Range(external')
    /\ \A name \in Metrics :
         \A i \in inflight :
           SameInvocation(i, j) =>
             j.pushed[name] - i.pushed[name] >= ExternalSamples(LiveAt(external, j.started), name)
    /\ \A name \in Metrics :
         InflightOf(j.s, inflight) = {} =>
           Len(collectedStats'[name].all) = ExternalSamples(LiveAt(external, j.started), name)

\* The invocations that leave collectStats() in this step while they were
\* still pulling the sessions, before "Add external collected stats".
EndsUnmerged == {i \in inflight : i.pc = "pull" /\ \A j \in inflight' : ~SameInvocation(i, j)}

\* C25 (as claimed): while an external entry is live, every tick that is not
\* skipped merges the values of its raw arrays into the tick's summaries and
\* leaves the entry in place: no tick that began with a live entry ends before
\* the merge, and the merge adds the lengths of the live arrays.
C25_LiveEntryMergedEveryTick ==
  [][/\ MergeKeepsLive
     /\ \A i \in EndsUnmerged : LiveAt(external, i.started) = <<>>]_vars


\* The report ids of the failed evaluations in the log of a tick.
FailedIn(recorded) ==
  {[key |-> recorded[k].key, desc |-> getAlertRuleDesc(recorded[k].ruleKey, recorded[k].ruleValue)] :
     k \in {j \in 1..Len(recorded) : recorded[j].failed}}

\* C28 (as claimed): the totalFailsTime of a report grows at a tick only when
\* the rule failed at that tick and at the tick immediately before it; a tick
\* at which the rule was not evaluated, between two failing ticks, keeps the
\* time across it from being counted.
C28_FailsTimeNeedsPrecedingFail ==
  [][ChecksIn =>
       \A id \in DOMAIN alertRulesReport' :
         alertRulesReport'[id].totalFailsTime > ReportBefore(id).totalFailsTime =>
           /\ id \in FailedIn(lastCheck'.recorded)
           /\ id \in FailedIn(lastCheck.recorded)]_vars

\* C29 (as claimed): after a recorded evaluation the totalFailsTimePerc of
\* its report is round(100 * totalFailsTime / elapsedSeconds), elapsedSeconds
\* being the time from startTimestamp to the tick, whatever the rule value.
C29_FailsTimePercentOfElapsed ==
  \A e \in Recorded :
    OnlyInReport(e) =>
      LET r == alertRulesReport[[key |-> e.key, desc |-> getAlertRuleDesc(e.ruleKey, e.ruleValue)]]
      IN r.totalFailsTimePerc = RoundRatio(100 * r.totalFailsTime, lastCheck.now - startTimestamp)

\* C30 (as claimed): every amount in the fail-amount distribution of a report
\* lies in 0..100, whatever the check value and the threshold.
C30_FailAmountInRange ==
  \A id \in DOMAIN alertRulesReport :
    \A k \in 1..Len(alertRulesReport[id].failAmountStats) :
      /\ 0 <= alertRulesReport[id].failAmountStats[k]
      /\ alertRulesReport[id].failAmountStats[k] <= 100

\* C31 (as claimed): the failAmountPercentile of a report is the percentile
\* of its fail-amount distribution at the failPercentile its rule declares,
\* wherever the rule declares it, and at the default when it declares none.
C31_FailPercentileOfRule ==
  \A id \in DOMAIN alertRulesReport :
    alertRulesReport[id].failAmountPercentile =
      calculateFailAmountPercentile(alertRulesReport[id].failAmountStats,
                                    FailPercentileOf(RuleOf(alertRules, id.key)))

\* The evaluations the step's tick recorded in the report id.
RecordedIn(id) ==
  {k \in 1..Len(lastCheck'.recorded) :
     /\ lastCheck'.recorded[k].key = id.key
     /\ getAlertRuleDesc(lastCheck'.recorded[k].ruleKey, lastCheck'.recorded[k].ruleValue) = id.desc}

\* C33: in every report the value distribution and the fail-amount
\* distribution have the same number of samples and totalFails does not
\* exceed it; the number is the number of evaluations recorded in the report:
\* it is 0 before the report exists and grows at every tick by the number of
\* evaluations the tick records for the report's description.
C33_ReportCountsEvaluations ==
  /\ [](\A id \in DOMAIN alertRulesReport :
          /\ Len(alertRulesReport[id].valueStats) = Len(alertRulesReport[id].failAmountStats)
          /\ alertRulesReport[id].totalFails <= Len(alertRulesReport[id].valueStats)
          /\ Len(alertRulesReport[id].valueStats) >= 1)
  /\ [][\A id \in DOMAIN alertRulesReport' :
          /\ Len(alertRulesReport'[id].valueStats) =
               Len(ReportBefore(id).valueStats) + (IF ChecksIn THEN Cardinality(RecordedIn(id)) ELSE 0)
          /\ Len(alertRulesReport'[id].failAmountStats) =
               Len(ReportBefore(id).failAmountStats) + (IF ChecksIn THEN Cardinality(RecordedIn(id)) ELSE 0)]_vars

\* A report after three recorded evaluations, one of them failed.
C33_Witness ==
  \E id \in DOMAIN alertRulesReport :
    /\ Len(alertRulesReport[id].valueStats) = 3
    /\ Len(alertRulesReport[id].failAmountStats) = 3
    /\ alertRulesReport[id].totalFails = 1

\* C34 (as claimed): a failed evaluation records a fail amount greater than
\* 0 and a passed one records 0, so the non-zero samples of a report's
\* fail-amount distribution are as many as its totalFails.
C34_FailedAmountPositive ==
  /\ \A e \in Recorded : IF e.failed THEN e.failAmount > 0 ELSE e.failAmount = 0
  /\ \A id \in DOMAIN alertRulesReport :
       Cardinality({k \in 1..Len(alertRulesReport[id].failAmountStats) :
                      alertRulesReport[id].failAmountStats[k] # 0})
         = alertRulesReport[id].totalFails

\* C35 (as claimed): the totalFailsTimePerc of every report is a finite
\* number in 0..100, whatever the rule and the time of the tick.
C35_FailsTimePercentInRange ==
  \A id \in DOMAIN alertRulesReport :
    /\ alertRulesReport[id].totalFailsTimePerc.fin
    /\ 0 <= alertRulesReport[id].totalFailsTimePerc.n
    /\ alertRulesReport[id].totalFailsTimePerc.n <= 100

\* C36 (as claimed): two different rule values of one metric and check key
\* never share a report: a tick that records no evaluation of a rule value
\* leaves the report of that rule value as it is, whatever it records for the
\* other rule values.
C36_VariantsOwnReports ==
  [][ChecksIn =>
       \A v \in Variants(alertRules) :
         RecordedFor(v) = {} => SameReport(ReportId(v))]_vars

\* ------------------------------------------------- alert life-cycle properties
\* The invocations of collectStats that take a step now and were begun by a
\* Scheduler that stop() has stopped since: they were in flight at the stop.
StoppedTicksStepping == {i \in inflight : i.s # scheduler /\ i \notin inflight'}

\* C26 (as claimed): once stop() has been called no alert rule report is
\* created or modified, neither while the collector is stopped nor by a tick
\* that was in flight when stop() was called.
C26_NoReportAfterStop ==
  [][/\ ~statsRunning => alertRulesReport' = alertRulesReport
     /\ StoppedTicksStepping # {} => alertRulesReport' = alertRulesReport]_vars


\* C27 (as claimed): the reports are cleared when the collector is stopped
\* (after stop() has run to its end there is no report), and none is removed
\* while the collector runs.
C27_ReportsClearedOnStop ==
  /\ [](~statsRunning /\ stopPend.sessions = 0 /\ stopPend.gateway = 0
          => DOMAIN alertRulesReport = {})
  /\ [][statsRunning /\ statsRunning'
          => DOMAIN alertRulesReport \subseteq DOMAIN alertRulesReport']_vars


\* The Schedulers of the collector that are running.
DrivingSchedulers == {s \in SchedIds : sched[s].running}

\* C32 (as claimed): at most one Scheduler drives collectStats at any time,
\* and once start() and stop() have returned with the collector stopped no
\* Scheduler is running.
C32_OneSchedulerDrives ==
  /\ Cardinality(DrivingSchedulers) <= 1
  /\ (~statsRunning /\ startPend = 0 /\ stopPend.sessions = 0 /\ stopPend.gateway = 0)
       => DrivingSchedulers = {}

\* ---------------------------------------------------------------------------
\* monitored-sessions properties

\* C37: addSession with an id that is in the monitored-sessions map throws and
\* leaves the map and the 'stop' listeners of the registered session as they
\* were, and the map never holds one id twice.
C37_DuplicateAddRejected ==
  /\ [](\A i, j \in DOMAIN sessions : sessions[i] = sessions[j] => i = j)
  /\ [][(/\ lastCall' # lastCall
         /\ lastCall'.op = "addSession"
         /\ lastCall'.id \in Range(sessions))
        => (/\ lastCall'.threw
            /\ sessions' = sessions
            /\ stopListeners' = stopListeners)]_vars

C37_Witness ==
  /\ lastCall.op = "addSession"
  /\ lastCall.threw
  /\ lastCall.id \in Range(sessions)
  /\ stopListeners[lastCall.id] = 1
  /\ Len(sessions) > 1

\* ---------------------------------------------------------------------------
\* exit handler properties

\* C38: every exit handler is invoked at most once, and no two exit handlers
\* are in flight at the same time, however often runExitHandlersNow is called
\* and whether or not a handler throws.
C38_ExitHandlersOnceAndSerial ==
  /\ \A h \in ExitHandlerIds : exitInvoked[h] <= 1
  /\ Len(exitRuns) <= 1

\* ---------------------------------------------------------------------------
\* chunkedPromiseAll properties

\* f has been called on item i.
ChunkInvoked(i) == i \in chunkFlight \/ chunkSettled[i] # "none"

AllItemsSettled ==
  /\ chunkCall.state # "idle"
  /\ \A i \in 0..(chunkCall.items - 1) : chunkSettled[i] # "none"

\* C39: a chunkedPromiseAll() call has at most chunkSize invocations of f in
\* flight; f is called on the items of a chunk only after every invocation of
\* the chunks before it has settled, fulfilled or rejected; and the call
\* resolves, and only then, once every invocation has settled, rejected ones
\* included.
C39_ChunksInTurn ==
  /\ [](/\ Cardinality(chunkFlight) <= chunkCall.chunkSize
        /\ \A i \in 0..(chunkCall.items - 1) :
             ChunkInvoked(i) =>
               \A j \in 0..(i - 1) :
                 (j \div chunkCall.chunkSize) < (i \div chunkCall.chunkSize) => chunkSettled[j] # "none"
        /\ chunkCall.state = "resolved" => AllItemsSettled)
  /\ [][(AllItemsSettled /\ chunkCall' # chunkCall) => chunkCall'.state = "resolved"]_vars
  /\ (AllItemsSettled ~> chunkCall.state = "resolved")

C39_Witness ==
  /\ chunkCall.state = "resolved"
  /\ chunkCall.items > chunkCall.chunkSize
  /\ chunkCall.chunkSize > 1
  /\ \E i, j \in 0..(chunkCall.items - 1) : chunkSettled[i] = "rejected" /\ chunkSettled[j] = "value"

\* ---------------------------------------------------------------------------
\* MeasuredStats properties

RECURSIVE SumValues(_)
SumValues(st) == IF st = <<>> THEN Num(0) ELSE JsAdd(st[1].value, SumValues(Tail(st)))

RECURSIVE SumCounts(_)
SumCounts(st) == IF st = <<>> THEN 0 ELSE st[1].count + SumCounts(Tail(st))

\* C40: statsSum is the sum of the value fields and statsCount the sum of the
\* count fields of the retained entries (as numbers: null counts as 0 and
\* NaN is taken to equal NaN).
C40_SumsMatchEntries ==
  /\ ToNumber(statsSum) = SumValues(stats)
  /\ statsCount = SumCounts(stats)

=============================================================================
